---- MODULE Spec2Model ----
(***************************************************************************)
(* A model of go-dexec: the generic command (GenericCmd), its two          *)
(* execution strategies (createContainer over the Docker daemon API,       *)
(* createTask over containerd) and the part of the two runtimes the        *)
(* strategies talk to.                                                     *)
(*                                                                         *)
(* Every handler of the program is a function from a "world" record to a   *)
(* world record, so that handlers compose exactly as the code composes     *)
(* them (Run is Start then Wait, Output is Run, Wait defers closeFds, the  *)
(* strategies' wait defers the removal).  The world holds                  *)
(*   g      the GenericCmd's fields                                        *)
(*   m      the strategy's fields (createContainer or createTask)          *)
(*   rt     the runtime's side: containers, tasks, leases, contexts        *)
(*   closes how often Close was invoked on each stream object              *)
(*   sinks  the bytes each sink has received                               *)
(*   h      counters of the strategy calls and runtime requests made       *)
(*   calls  the strategy calls and runtime requests of the handler that    *)
(*          ran last, in order                                             *)
(*   err, code, out   what the handler that ran last returned              *)
(*   panic  the handler hit a nil dereference                              *)
(*   swait  what the strategy's wait returned to Wait                      *)
(*   status the exit status the runtime delivered to the strategy's wait   *)
(* The answers of the runtime (which request fails, the exit code, which   *)
(* arm of a select fires) are the inputs of a handler: a record c.         *)
(* The variable input holds the client and the Config a caller hands to    *)
(* the factory Command; it is NoInput where the caller builds the Command  *)
(* from a strategy of its own.                                             *)
(* The variable pc holds the positions of two goroutines, one in Wait and  *)
(* one in Kill or Cleanup, where the model runs them step by step; it is   *)
(* NoThreads where one goroutine makes every call.                         *)
(***************************************************************************)
EXTENDS Integers, Sequences, FiniteSets, TLC

VARIABLES g, m, rt, closes, sinks, h, calls, ret, nops, crashed, input, pc

vars == <<g, m, rt, closes, sinks, h, calls, ret, nops, crashed, input, pc>>

(* ------------------------------ bounds --------------------------------- *)

\* calls made on one Command, counted from the first lifecycle call on; Run,
\* Output and CombinedOutput are a Start and a Wait and count as two
MaxOps == 3
\* pipes one Command creates with StderrPipe (SetStderr(nil) allows another;
\* Stdin and Stdout are never reset, so StdinPipe and StdoutPipe succeed once)
MaxPipes == 1
\* the exit codes a process ends with: 0..MaxExit
MaxExit == 1
\* the mounts one Config lists
MaxMounts == 2
\* the width of the signed integer type of the identity fields, scaled down
\* from 64 bits, and the width of the significand of the floating-point type
\* abs converts through, scaled down from 53 bits
IntBits == 4
MantBits == 2
\* the containers one listing returns
MaxContainers == 2

ExitCodes == 0..MaxExit

(* ------------------------------ values --------------------------------- *)

\* a Go []string that may be nil: setEnv tells nil from an empty slice
NilSlice == [isnil |-> TRUE, v |-> <<>>]
Slice(s) == [isnil |-> FALSE, v |-> s]

\* a Go error value; ExitError carries the code and the captured stderr
Err(kind) == [kind |-> kind, code |-> 0, stderr |-> <<>>]
Nil == Err("nil")
ExitError(ec) == [kind |-> "ExitError", code |-> ec, stderr |-> <<>>]

\* the ends of the pipes io.Pipe() hands out: the pair of StdinPipe, the pair
\* of StdoutPipe, and the pairs of StderrPipe by the order of creation
StderrReaders == <<"stderrR1", "stderrR2", "stderrR3", "stderrR4">>
StderrWriters == <<"stderrW1", "stderrW2", "stderrW3", "stderrW4">>
PipeWriterEnds == {"stdoutW"} \cup {StderrWriters[i] : i \in 1..Len(StderrWriters)}
PipeEnds == {"stdinR", "stdinW", "stdoutR"} \cup PipeWriterEnds
               \cup {StderrReaders[i] : i \in 1..Len(StderrReaders)}

\* the streams a caller supplies
CallerStreams == {"callerIn", "callerOut", "callerErr"}
\* the capture buffers of Output and CombinedOutput
Buffers == {"stdoutBuf", "stderrBuf", "combinedBuf"}
\* everything a writer field may hold and bytes may be copied to
Sinks == {"callerOut", "callerErr", "discard"} \cup Buffers
            \cup PipeWriterEnds
\* everything Close could be invoked on
Closers == CallerStreams \cup PipeEnds

\* what the process in the container writes before it exits
ProcessStdout == <<"o">>
ProcessStderr == <<"e">>

(* ------------------------------ the world ------------------------------ *)

World == [g |-> g, m |-> m, rt |-> rt, closes |-> closes, sinks |-> sinks,
          h |-> h, calls |-> <<>>, err |-> Nil, code |-> 0, out |-> <<>>,
          pid |-> "", rerr |-> "nil", panic |-> FALSE,
          swait |-> [called |-> FALSE, code |-> 0, err |-> Nil],
          status |-> [got |-> FALSE, code |-> 0, err |-> Nil]]

Called(w, name) == [w EXCEPT !.calls = Append(@, name)]
Return(w, e) == [w EXCEPT !.err = e]
ReturnCode(w, ec, e) == [w EXCEPT !.code = ec, !.err = e]
Panic(w) == [w EXCEPT !.panic = TRUE, !.err = Err("panic")]
Count(w, field) == [w EXCEPT !.h[field] = @ + 1]

\* statement sequencing: evaluate x once, then continue with its value
Then(x, F(_)) == CHOOSE y \in {F(v) : v \in {x}} : TRUE

(* --------------------- the Docker daemon's side ------------------------ *)

\* the identifier the daemon gives the container it creates
ContainerID == "cid"

\* RemoveContainer request: fail is a transport or daemon failure
RemoveContainer(w, id, force, fail) ==
    Then(Count(Called(w, IF force THEN "RemoveContainer:force" ELSE "RemoveContainer"),
               "removeReqs"), LAMBDA w1 :
    IF fail THEN [w1 EXCEPT !.rerr = "other"]
    ELSE IF id # ContainerID \/ w1.rt.dstate = "absent"
         THEN [w1 EXCEPT !.rerr = "NoSuchContainer"]
    ELSE IF ~force /\ w1.rt.dstate = "running"
         THEN [w1 EXCEPT !.rerr = "other"]
    ELSE [w1 EXCEPT !.rerr = "nil", !.rt.dstate = "absent"])

\* StopContainer request with its timeout in seconds
StopContainer(w, id, timeout, fail) ==
    Then(Count(Called(Called(w, "StopContainer"), "timeout: " \o ToString(timeout)),
               "stopReqs"), LAMBDA w1 :
    IF fail THEN [w1 EXCEPT !.rerr = "other"]
    ELSE IF id # ContainerID \/ w1.rt.dstate = "absent"
         THEN [w1 EXCEPT !.rerr = "NoSuchContainer"]
    ELSE IF w1.rt.dstate # "running"
         THEN [w1 EXCEPT !.rerr = "ContainerNotRunning"]
    ELSE [w1 EXCEPT !.rerr = "nil", !.rt.dstate = "exited"])

\* a sink receives bytes; what goes to ioutil.Discard is not kept
Put(f, sink, bytes) ==
    IF sink = "discard" \/ sink = "nil" THEN f ELSE [f EXCEPT ![sink] = @ \o bytes]

\* the runtime copies what the process wrote to the sinks bound at attach/exec
Deliver(w, errFirst) ==
    IF w.rt.delivered THEN w
    ELSE [w EXCEPT !.rt.delivered = TRUE,
                   !.sinks = IF errFirst
                             THEN Put(Put(@, w.rt.boundErr, ProcessStderr),
                                      w.rt.boundOut, ProcessStdout)
                             ELSE Put(Put(@, w.rt.boundOut, ProcessStdout),
                                      w.rt.boundErr, ProcessStderr)]

(* ------------------ createContainer: the daemon strategy --------------- *)

createContainer_setEnv(w, env) ==
    IF Len(w.m.Env.v) > 0 THEN Return(w, Err("EnvAlreadySet"))
    ELSE Return([w EXCEPT !.m.Env = env], Nil)

\* setDir that stores its argument whatever the options hold
createContainer_setDir_Overwrite(w, dir) ==
    Return([w EXCEPT !.m.WorkingDir = dir], Nil)

createContainer_setDir(w, dir) ==
    IF w.m.WorkingDir # "" THEN Return(w, Err("WorkingDirAlreadySet"))
    ELSE Return([w EXCEPT !.m.WorkingDir = dir], Nil)

\* create without the check of Entrypoint
createContainer_create_NoEntrypointCheck(w, cmd, c) ==
    IF Len(w.m.Cmd) > 0 THEN Return([w EXCEPT !.m.cmd = cmd], Err("CmdAlreadySet"))
    ELSE
      Then(Called([w EXCEPT !.m.cmd = cmd,
                            !.m.AttachStdin = TRUE, !.m.AttachStdout = TRUE,
                            !.m.AttachStderr = TRUE, !.m.OpenStdin = TRUE,
                            !.m.StdinOnce = TRUE, !.m.Cmd = <<>>,
                            !.m.Entrypoint = cmd], "CreateContainer"), LAMBDA w1 :
      IF c.createFail # "none" THEN Return(w1, Err("CreateContainerFailed"))
      ELSE Return([w1 EXCEPT !.m.id = ContainerID, !.rt.dstate = "created"], Nil))

\* create that stores the identifier whatever the create request answered
createContainer_create_StoreOnFailure(w, cmd, c) ==
    IF Len(w.m.Cmd) > 0 THEN Return([w EXCEPT !.m.cmd = cmd], Err("CmdAlreadySet"))
    ELSE IF Len(w.m.Entrypoint) > 0
    THEN Return([w EXCEPT !.m.cmd = cmd], Err("EntrypointAlreadySet"))
    ELSE
      Then(Called([w EXCEPT !.m.cmd = cmd,
                            !.m.AttachStdin = TRUE, !.m.AttachStdout = TRUE,
                            !.m.AttachStderr = TRUE, !.m.OpenStdin = TRUE,
                            !.m.StdinOnce = TRUE, !.m.Cmd = <<>>,
                            !.m.Entrypoint = cmd, !.m.id = ContainerID],
                  "CreateContainer"), LAMBDA w1 :
      IF c.createFail # "none" THEN Return(w1, Err("CreateContainerFailed"))
      ELSE Return([w1 EXCEPT !.rt.dstate = "created"], Nil))

createContainer_create(w, cmd, c) ==
    IF Len(w.m.Cmd) > 0 THEN Return([w EXCEPT !.m.cmd = cmd], Err("CmdAlreadySet"))
    ELSE IF Len(w.m.Entrypoint) > 0
    THEN Return([w EXCEPT !.m.cmd = cmd], Err("EntrypointAlreadySet"))
    ELSE
      Then(Called([w EXCEPT !.m.cmd = cmd,
                            !.m.AttachStdin = TRUE, !.m.AttachStdout = TRUE,
                            !.m.AttachStderr = TRUE, !.m.OpenStdin = TRUE,
                            !.m.StdinOnce = TRUE, !.m.Cmd = <<>>,
                            !.m.Entrypoint = cmd], "CreateContainer"), LAMBDA w1 :
      IF c.createFail # "none" THEN Return(w1, Err("CreateContainerFailed"))
      ELSE Return([w1 EXCEPT !.m.id = ContainerID, !.rt.dstate = "created"], Nil))

\* run that requests the attachment before it starts the container
createContainer_run_AttachFirst(w, stdin, stdout, stderr, c) ==
    IF w.m.id = "" THEN Return(w, Err("NotCreated"))
    ELSE IF c.runFail = "attach"
    THEN Return(Called(w, "AttachToContainerNonBlocking"), Err("AttachFailed"))
    ELSE
      Then(Called(Called([w EXCEPT !.m.cw = "cw", !.rt.boundOut = stdout,
                                   !.rt.boundErr = stderr],
                         "AttachToContainerNonBlocking"), "StartContainer"), LAMBDA w1 :
      IF c.runFail = "start" \/ w1.rt.dstate = "absent"
      THEN Return(w1, Err("StartContainerFailed"))
      ELSE Return([w1 EXCEPT !.rt.dstate = "running"], Nil))

createContainer_run(w, stdin, stdout, stderr, c) ==
    IF w.m.id = "" THEN Return(w, Err("NotCreated"))
    ELSE IF c.runFail = "start" \/ w.rt.dstate = "absent"
    THEN Return(Called(w, "StartContainer"), Err("StartContainerFailed"))
    ELSE
      Then(Called(Called([w EXCEPT !.rt.dstate = "running"], "StartContainer"),
                  "AttachToContainerNonBlocking"), LAMBDA w1 :
      IF c.runFail = "attach" THEN Return(w1, Err("AttachFailed"))
      ELSE Return([w1 EXCEPT !.m.cw = "cw", !.rt.boundOut = stdout,
                             !.rt.boundErr = stderr], Nil))

\* the body of wait, between the defer and the return
\* wait body that returns the exit code whatever the removal answered
createContainer_waitBody_IgnoreRemoval(w, c) ==
    IF w.m.cw = "nil" THEN ReturnCode(w, -1, Err("NotAttached"))
    ELSE IF c.waitFail = "cw" THEN ReturnCode(Called(w, "cw.Wait"), -1, Err("AttachError"))
    ELSE
      Then(Called(Deliver([Called(w, "cw.Wait") EXCEPT
                               !.rt.dstate = IF @ = "running" THEN "exited" ELSE @],
                          c.errFirst), "WaitContainer"), LAMBDA w1 :
      IF c.waitFail = "wc" \/ w1.rt.dstate = "absent"
      THEN ReturnCode(w1, -1, Err("WaitContainerFailed"))
      ELSE ReturnCode(RemoveContainer([w1 EXCEPT !.status = [got |-> TRUE,
                                                            code |-> c.code,
                                                            err |-> Nil]],
                                      w1.m.id, TRUE, c.rm1), c.code, Nil))

createContainer_waitBody(w, c) ==
    IF w.m.cw = "nil" THEN ReturnCode(w, -1, Err("NotAttached"))
    ELSE IF c.waitFail = "cw" THEN ReturnCode(Called(w, "cw.Wait"), -1, Err("AttachError"))
    ELSE
      Then(Called(Deliver([Called(w, "cw.Wait") EXCEPT
                               !.rt.dstate = IF @ = "running" THEN "exited" ELSE @],
                          c.errFirst), "WaitContainer"), LAMBDA w1 :
      IF c.waitFail = "wc" \/ w1.rt.dstate = "absent"
      THEN ReturnCode(w1, -1, Err("WaitContainerFailed"))
      ELSE Then(RemoveContainer([w1 EXCEPT !.status = [got |-> TRUE, code |-> c.code,
                                                      err |-> Nil]],
                                w1.m.id, TRUE, c.rm1), LAMBDA w2 :
           IF w2.rerr # "nil" THEN ReturnCode(w2, -1, Err("DeleteContainerFailed"))
           ELSE ReturnCode(w2, c.code, Nil)))

\* wait without the defer: the removal is requested on the success path only
createContainer_wait_NoDefer(w, c) == createContainer_waitBody(w, c)

\* wait: the body, then the deferred del(), whose result is dropped
createContainer_wait(w, c) ==
    Then(createContainer_waitBody(w, c), LAMBDA w1 :
    RemoveContainer(w1, w1.m.id, TRUE, c.rm2))

createContainer_getID(w) == [w EXCEPT !.pid = w.m.id]

\* kill that removes the container after stopping it
\* kill that returns the error of a stop on a container that is not running
createContainer_kill_NotRunningIsError(w, c) ==
    Then(StopContainer(w, w.m.id, 1, c.stop), LAMBDA w1 :
    IF w1.rerr \in {"nil", "NoSuchContainer"}
    THEN Return(w1, Nil)
    ELSE Return(w1, Err("StopContainerFailed")))

createContainer_kill_StopAndRemove(w, c) ==
    Then(StopContainer(w, w.m.id, 1, c.stop), LAMBDA w1 :
    IF w1.rerr \notin {"nil", "NoSuchContainer", "ContainerNotRunning"}
    THEN Return(w1, Err("StopContainerFailed"))
    ELSE Return(RemoveContainer(w1, w1.m.id, TRUE, c.rm1), Nil))

createContainer_kill(w, c) ==
    Then(StopContainer(w, w.m.id, 1, c.stop), LAMBDA w1 :
    IF w1.rerr \in {"nil", "NoSuchContainer", "ContainerNotRunning"}
    THEN Return(w1, Nil)
    ELSE Return(w1, Err("StopContainerFailed")))

\* cleanup that sends the remove request whatever the stop answered
createContainer_cleanup_AlwaysRemove(w, c) ==
    Then(StopContainer(w, w.m.id, 1, c.stop), LAMBDA w1 :
    Then(RemoveContainer(w1, w1.m.id, FALSE, c.rm1), LAMBDA w2 :
    IF w2.rerr # "nil" THEN Return(w2, Err("RemoveContainerFailed"))
    ELSE Return(w2, Nil)))

createContainer_cleanup(w, c) ==
    Then(StopContainer(w, w.m.id, 1, c.stop), LAMBDA w1 :
    IF w1.rerr = "NoSuchContainer" THEN Return(w1, Nil)
    ELSE IF w1.rerr \notin {"nil", "ContainerNotRunning"}
    THEN Return(w1, Err("StopContainerFailed"))
    ELSE Then(RemoveContainer(w1, w1.m.id, FALSE, c.rm1), LAMBDA w2 :
         IF w2.rerr # "nil" THEN Return(w2, Err("RemoveContainerFailed"))
         ELSE Return(w2, Nil)))

(* ------------------------- containerd's side --------------------------- *)

\* a request made on a context that is cancelled or past its deadline fails
\* before it reaches containerd; fail is any other failure
TaskDelete(w, fail) ==
    Then(Count(Called(w, "task.Delete"), "taskDeleteReqs"), LAMBDA w1 :
    IF w1.rt.ctxDone \/ fail
    THEN Called([w1 EXCEPT !.rerr = "other"], "task.Delete: other")
    ELSE IF ~w1.rt.ttask
    THEN Called([w1 EXCEPT !.rerr = "NotFound"], "task.Delete: NotFound")
    ELSE Called([w1 EXCEPT !.rerr = "nil", !.rt.ttask = FALSE,
                           !.rt.proc = IF @ = "running" THEN "exited" ELSE @],
                "task.Delete: nil"))

ContainerDelete(w, fail) ==
    Then(Count(Called(w, "container.Delete"), "containerDeleteReqs"), LAMBDA w1 :
    IF w1.rt.ctxDone \/ fail
    THEN Called([w1 EXCEPT !.rerr = "other"], "container.Delete: other")
    ELSE IF ~w1.rt.tcontainer
    THEN Called([w1 EXCEPT !.rerr = "NotFound"], "container.Delete: NotFound")
    ELSE Called([w1 EXCEPT !.rerr = "nil", !.rt.tcontainer = FALSE],
                "container.Delete: nil"))

\* the lease's delete function, as WithLease returns it
deleteLease(w) ==
    IF w.rt.ctxDone THEN Called(w, "deleteLease")
    ELSE Called([w EXCEPT !.rt.lease = FALSE], "deleteLease")

(* -------------------- createTask: the containerd strategy -------------- *)

\* the values of the integer type of CommandDetails
MinInt64 == -(2 ^ (IntBits - 1))
MaxInt64 == 2 ^ (IntBits - 1) - 1
Int64 == MinInt64..MaxInt64

RECURSIVE BitLen(_)
BitLen(n) == IF n = 0 THEN 0 ELSE 1 + BitLen(n \div 2)

\* the nearest value with a significand of MantBits bits, ties to the even
\* significand
RoundToSignificand(n) ==
    IF BitLen(n) <= MantBits THEN n
    ELSE LET u == 2 ^ (BitLen(n) - MantBits)
             q == n \div u
             r == n % u
         IN  IF 2 * r < u THEN q * u
             ELSE IF 2 * r > u THEN (q + 1) * u
             ELSE IF q % 2 = 0 THEN q * u ELSE (q + 1) * u

\* float64(v) of an integer v
float64(v) == IF v < 0 THEN -RoundToSignificand(-v) ELSE RoundToSignificand(v)

\* math.Abs
math_Abs(f) == IF f < 0 THEN -f ELSE f

\* int64(f): a value out of the range of the type converts to a result that
\* depends on the implementation: amd64 gives the minimum value, arm64
\* saturates
int64(f, arch) ==
    IF f \in Int64 THEN f
    ELSE IF arch = "amd64" THEN MinInt64
    ELSE IF f > 0 THEN MaxInt64 ELSE MinInt64

abs(v, arch) == IF v >= 0 THEN v ELSE int64(math_Abs(float64(v)), arch)

\* a string of the name is a sequence of characters
DecimalDigits == <<"0", "1", "2", "3", "4", "5", "6", "7", "8", "9">>

RECURSIVE FormatUint(_)
FormatUint(n) ==
    IF n < 10 THEN <<DecimalDigits[n + 1]>>
    ELSE Append(FormatUint(n \div 10), DecimalDigits[(n % 10) + 1])

\* the verb %d of fmt.Sprintf
FormatInt(n) == IF n < 0 THEN <<"-">> \o FormatUint(-n) ELSE FormatUint(n)

Letters ==
    {"a", "b", "c", "d", "e", "f", "g", "h", "i", "j", "k", "l", "m", "n", "o", "p",
     "q", "r", "s", "t", "u", "v", "w", "x", "y", "z", "A", "B", "C", "D", "E", "F",
     "G", "H", "I", "J", "K", "L", "M", "N", "O", "P", "Q", "R", "S", "T", "U", "V",
     "W", "X", "Y", "Z"}

randomSuffixLength == 6

\* RandomString(n): n letters; the results the model draws from
RandomStrings(n) ==
    {[i \in 1..n |-> "a"],
     [i \in 1..n |-> IF i % 2 = 0 THEN "Z" ELSE "q"]}

ChainsPrefix == <<"c", "h", "a", "i", "n", "s">>

\* generateContainerName: Sprintf("chains-%d-%d-%d-%s", ...)
createTask_generateContainerName(w, suffix, arch) ==
    [w EXCEPT !.out =
        ChainsPrefix \o <<"-">>
            \o FormatInt(abs(w.m.CommandDetails.ChainExecutorId, arch)) \o <<"-">>
            \o FormatInt(abs(w.m.CommandDetails.ExecutorId, arch)) \o <<"-">>
            \o FormatInt(abs(w.m.CommandDetails.ResultId, arch)) \o <<"-">>
            \o suffix]

createTask_setEnv(w, env) ==
    IF Len(w.m.Env.v) > 0 THEN Return(w, Err("EnvAlreadySet"))
    ELSE Return([w EXCEPT !.m.Env = env], Nil)

createTask_setDir(w, dir) ==
    IF w.m.WorkingDir # "" THEN Return(w, Err("WorkingDirAlreadySet"))
    ELSE Return([w EXCEPT !.m.WorkingDir = dir], Nil)

\* the doneFunc create stores: delete the lease, then cancel the context
doneFunc(w) == Called([deleteLease(w) EXCEPT !.rt.ctxDone = TRUE], "cancel")

\* createContainer: nerdctl creates the container, LoadContainer fetches it
createTask_createContainer(w, c) ==
    IF c.createFail = "nerdctl"
    THEN Return(Called(w, "nerdctl create"), Err("CreateContainerFailed"))
    ELSE IF c.createFail = "load"
    THEN Return(Called(Called([w EXCEPT !.rt.tcontainer = TRUE], "nerdctl create"),
                       "LoadContainer"), Err("CreateContainerFailed"))
    ELSE Return(Called(Called([w EXCEPT !.rt.tcontainer = TRUE,
                                        !.m.container = "container"],
                              "nerdctl create"), "LoadContainer"), Nil)

createTask_create(w, cmd, c) ==
    IF c.createFail = "lease"
    THEN Return(Called([w EXCEPT !.m.cmd = cmd], "WithLease"), Err("CreateContextFailed"))
    ELSE createTask_createContainer(
             Called([w EXCEPT !.m.cmd = cmd, !.rt.lease = TRUE, !.rt.ctxDone = FALSE,
                              !.m.ctx = "ctx", !.m.doneFunc = TRUE], "WithLease"), c)

\* run starting the process before it subscribes to the exit channel
createTask_runProcess_StartFirst(w, c) ==
    IF c.runFail = "psStart"
    THEN Return(Called(w, "process.Start"), Err("StartProcessFailed"))
    ELSE IF c.runFail = "psWait"
    THEN Return(Called(Called([w EXCEPT !.m.exitChan = "nil", !.rt.proc = "running"],
                              "process.Start"), "process.Wait"),
                Err("WaitProcessFailed"))
    ELSE Return(Called(Called([w EXCEPT !.m.exitChan = "chan", !.rt.chan = "open",
                                        !.rt.proc = "running"],
                              "process.Start"), "process.Wait"), Nil)

\* run from process.Wait on: the exit channel is stored, then the process starts
createTask_runProcess(w, c) ==
    IF c.runFail = "psWait"
    THEN Return(Called([w EXCEPT !.m.exitChan = "nil"], "process.Wait"),
                Err("WaitProcessFailed"))
    ELSE IF c.runFail = "psStart"
    THEN Return(Called(Called([w EXCEPT !.m.exitChan = "chan", !.rt.chan = "open"],
                              "process.Wait"), "process.Start"),
                Err("StartProcessFailed"))
    ELSE Return(Called(Called([w EXCEPT !.m.exitChan = "chan", !.rt.chan = "open",
                                        !.rt.proc = "running"],
                              "process.Wait"), "process.Start"), Nil)

createTask_run(w, stdin, stdout, stderr, c) ==
    IF w.m.container = "nil" THEN Panic(w)
    ELSE IF c.runFail = "newTask" \/ w.rt.ctxDone
    THEN Return(Called(w, "NewTask"), Err("CreateTaskFailed"))
    ELSE IF c.runFail = "spec"
    THEN Return(Called(Called([w EXCEPT !.m.task = "task", !.rt.ttask = TRUE],
                              "NewTask"), "Spec"), Err("ProcessSpecFailed"))
    ELSE IF c.runFail = "exec"
    THEN Return(Called(Called(Called([w EXCEPT !.m.task = "task", !.rt.ttask = TRUE],
                                     "NewTask"), "Spec"), "Exec"),
                Err("CreateProcessFailed"))
    ELSE createTask_runProcess(
             Called(Called(Called([w EXCEPT !.m.task = "task", !.rt.ttask = TRUE,
                                            !.m.process = "process",
                                            !.rt.proc = "created",
                                            !.rt.boundOut = stdout,
                                            !.rt.boundErr = stderr],
                                  "NewTask"), "Spec"), "Exec"), c)

\* the function cleanup defers: release the lease and cancel the context
createTask_cleanupDeferred(w) ==
    IF w.m.doneFunc /\ w.m.ctx # "nil" THEN doneFunc(w) ELSE w

\* cleanup that releases the lease only when it reaches the container delete
createTask_cleanup_ReleaseAtEnd(w, c) ==
    IF w.m.task = "nil" THEN createTask_cleanupDeferred(Panic(w))
    ELSE Then(TaskDelete(w, c.td), LAMBDA w1 :
         IF w1.rerr \notin {"nil", "NotFound"}
         THEN Return(w1, Err("DeleteTaskFailed"))
         ELSE IF w1.m.container = "nil" THEN createTask_cleanupDeferred(Panic(w1))
         ELSE Then(ContainerDelete(w1, c.cd), LAMBDA w2 :
              IF w2.rerr \in {"nil", "NotFound"}
              THEN createTask_cleanupDeferred(Return(w2, Nil))
              ELSE createTask_cleanupDeferred(Return(w2, Err("DeleteContainerFailed")))))

\* cleanup that goes on to delete the container after any task-delete error
createTask_cleanup_NoShortCircuit(w, c) ==
    IF w.m.task = "nil" THEN createTask_cleanupDeferred(Panic(w))
    ELSE Then(TaskDelete(w, c.td), LAMBDA w1 :
         IF w1.m.container = "nil" THEN createTask_cleanupDeferred(Panic(w1))
         ELSE Then(ContainerDelete(w1, c.cd), LAMBDA w2 :
              IF w2.rerr \in {"nil", "NotFound"}
              THEN createTask_cleanupDeferred(Return(w2, Nil))
              ELSE createTask_cleanupDeferred(Return(w2, Err("DeleteContainerFailed")))))

createTask_cleanup(w, c) ==
    IF w.m.task = "nil" THEN createTask_cleanupDeferred(Panic(w))
    ELSE Then(TaskDelete(w, c.td), LAMBDA w1 :
         IF w1.rerr \notin {"nil", "NotFound"}
         THEN createTask_cleanupDeferred(Return(w1, Err("DeleteTaskFailed")))
         ELSE IF w1.m.container = "nil" THEN createTask_cleanupDeferred(Panic(w1))
         ELSE Then(ContainerDelete(w1, c.cd), LAMBDA w2 :
              IF w2.rerr \in {"nil", "NotFound"}
              THEN createTask_cleanupDeferred(Return(w2, Nil))
              ELSE createTask_cleanupDeferred(Return(w2, Err("DeleteContainerFailed")))))

createTask_kill(w, c) == createTask_cleanup(w, c)

\* the select of wait: the exit arm can fire
ExitArmReady(w) ==
    /\ w.m.exitChan # "nil"
    /\ \/ w.rt.chan = "closed"
       \/ w.rt.chan = "open" /\ w.rt.proc \in {"running", "exited"}

createTask_waitBody(w, c) ==
    IF w.m.ctx = "nil" THEN Panic(w)
    ELSE IF c.arm = "exit" /\ ExitArmReady(w)
    THEN IF w.rt.chan = "closed"
         THEN ReturnCode([w EXCEPT !.status = [got |-> TRUE, code |-> 0, err |-> Nil]],
                         0, Nil)
         ELSE Then(IF c.exitErr THEN Err("ExitStatusError") ELSE Nil, LAMBDA e :
              ReturnCode(Deliver([w EXCEPT !.rt.proc = "exited", !.rt.chan = "closed",
                                           !.status = [got |-> TRUE, code |-> c.code,
                                                       err |-> e]],
                                 c.errFirst),
                         c.code, e))
    ELSE ReturnCode([w EXCEPT !.rt.ctxDone = TRUE], -1, Err("Canceled"))

\* wait without the deferred cleanup
createTask_wait_NoCleanup(w, c) == createTask_waitBody(w, c)

\* wait: the select, then the deferred cleanup, whose result is dropped
createTask_wait(w, c) ==
    Then(createTask_waitBody(w, c), LAMBDA w1 :
    Then(createTask_cleanup(Count(Called(w1, "cleanup"), "cleanupCalls"), c), LAMBDA w2 :
    [w2 EXCEPT !.code = w1.code,
               !.err = IF w2.panic THEN Err("panic") ELSE w1.err]))

createTask_getID(w) ==
    IF w.m.container = "nil" THEN Panic(w) ELSE [w EXCEPT !.pid = "container"]

(* ----------------- Execution: the strategy a Command holds ------------- *)

Method_setDir(w, dir) ==
    IF w.m.backend = "docker" THEN createContainer_setDir(Called(w, "setDir"), dir)
    ELSE createTask_setDir(Called(w, "setDir"), dir)

Method_setEnv(w, env) ==
    IF w.m.backend = "docker" THEN createContainer_setEnv(Called(w, "setEnv"), env)
    ELSE createTask_setEnv(Called(w, "setEnv"), env)

Method_create(w, cmd, c) ==
    Then(Count(Called(w, "create"), "createCalls"), LAMBDA w1 :
    Then(IF w1.m.backend = "docker" THEN createContainer_create(w1, cmd, c)
         ELSE createTask_create(w1, cmd, c), LAMBDA w2 :
    IF w2.err = Nil /\ ~w2.panic THEN Count(w2, "createOK") ELSE w2))

Method_run(w, stdin, stdout, stderr, c) ==
    Then(Count(Called(w, "run"), "runCalls"), LAMBDA w1 :
    IF w1.m.backend = "docker" THEN createContainer_run(w1, stdin, stdout, stderr, c)
    ELSE createTask_run(w1, stdin, stdout, stderr, c))

Method_wait(w, c) ==
    Then(Count(Called(w, "wait"), "waitCalls"), LAMBDA w1 :
    IF w1.m.backend = "docker" THEN createContainer_wait(w1, c)
    ELSE createTask_wait(w1, c))

Method_kill(w, c) ==
    Then(Count(Called(w, "kill"), "killCalls"), LAMBDA w1 :
    IF w1.m.backend = "docker" THEN createContainer_kill(w1, c)
    ELSE createTask_kill(w1, c))

Method_cleanup(w, c) ==
    Then(Count(Called(w, "cleanup"), "cleanupCalls"), LAMBDA w1 :
    IF w1.m.backend = "docker" THEN createContainer_cleanup(w1, c)
    ELSE createTask_cleanup(w1, c))

Method_getID(w) ==
    IF w.m.backend = "docker" THEN createContainer_getID(Called(w, "getID"))
    ELSE createTask_getID(Called(w, "getID"))

(* ----------------------------- GenericCmd ------------------------------ *)

\* closeFds: Close on every element of the list, once for each place it holds
closeFds(w, l) ==
    [w EXCEPT !.closes = [x \in Closers |->
                             @[x] + Cardinality({i \in 1..Len(l) : l[i] = x})],
              !.calls = @ \o [i \in 1..Len(l) |-> "Close:" \o l[i]]]

\* the nil streams Start replaces
StartDefaults(gc) ==
    [gc EXCEPT !.Stdin = IF @ = "nil" THEN "empty" ELSE @,
               !.Stdout = IF @ = "nil" THEN "discard" ELSE @,
               !.Stderr = IF @ = "nil" THEN "discard" ELSE @]

\* Start that cleans up whenever create or run returns an error
StartCreateRun_CleanupOnError(w, c) ==
    IF w.g.started THEN Return(w, Err("AlreadyStarted"))
    ELSE Then(Method_create([w EXCEPT !.g = StartDefaults([@ EXCEPT !.started = TRUE])],
                            <<w.g.Path>> \o w.g.Args, c), LAMBDA w1 :
         IF w1.err # Nil THEN Return(Method_cleanup(w1, c), w1.err)
         ELSE Then(Method_run(w1, w1.g.Stdin, w1.g.Stdout, w1.g.Stderr, c), LAMBDA w2 :
              IF w2.err # Nil THEN Return(Method_cleanup(w2, c), w2.err) ELSE w2))

\* Start marking the Command started only once create and run have succeeded
StartCreateRun_StartedOnSuccess(w, c) ==
    IF w.g.started THEN Return(w, Err("AlreadyStarted"))
    ELSE Then(Method_create([w EXCEPT !.g = StartDefaults(@)],
                            <<w.g.Path>> \o w.g.Args, c), LAMBDA w1 :
         IF w1.err # Nil THEN w1
         ELSE Then(Method_run(w1, w1.g.Stdin, w1.g.Stdout, w1.g.Stderr, c), LAMBDA w2 :
              IF w2.err # Nil THEN w2 ELSE [w2 EXCEPT !.g.started = TRUE]))

\* Start from the started check on
StartCreateRun(w, c) ==
    IF w.g.started THEN Return(w, Err("AlreadyStarted"))
    ELSE Then(Method_create([w EXCEPT !.g = StartDefaults([@ EXCEPT !.started = TRUE])],
                            <<w.g.Path>> \o w.g.Args, c), LAMBDA w1 :
         IF w1.err # Nil THEN w1
         ELSE Method_run(w1, w1.g.Stdin, w1.g.Stdout, w1.g.Stderr, c))

StartBody(w, c) ==
    Then(IF w.g.Dir # "" THEN Method_setDir(w, w.g.Dir) ELSE Return(w, Nil), LAMBDA w1 :
    IF w1.err # Nil THEN w1
    ELSE Then(IF ~w1.g.Env.isnil THEN Method_setEnv(w1, w1.g.Env) ELSE w1, LAMBDA w2 :
         IF w2.err # Nil THEN w2
         ELSE StartCreateRun(w2, c)))

\* Start, and the record of its calls and of the calls that returned nil
Start(w, c) ==
    Then(StartBody(Count(w, "startCalls"), c), LAMBDA w1 :
    IF w1.err = Nil /\ ~w1.panic THEN Count(w1, "startOK") ELSE w1)

\* the mapping that looks at the exit code before it looks at the error
WaitResult_CodeFirst(ec, err) ==
    IF ec # 0 THEN ExitError(ec)
    ELSE IF err # Nil THEN err
    ELSE Nil

\* what Wait makes of the strategy's (exit code, error)
WaitResult(ec, err) ==
    IF err # Nil THEN err
    ELSE IF ec # 0 THEN ExitError(ec)
    ELSE Nil

WaitBody(w, c) ==
    IF ~w.g.started THEN Return(w, Err("NotStarted"))
    ELSE Then(Method_wait(w, c), LAMBDA w1 :
         IF w1.panic THEN w1
         ELSE [w1 EXCEPT !.err = WaitResult(w1.code, w1.err),
                         !.swait = [called |-> TRUE, code |-> w1.code, err |-> w1.err]])

\* Wait that closes the writers before it waits
Wait_CloseFirst(w, c) ==
    Then(closeFds([w EXCEPT !.h.waited =
                       @ \cup {w.g.closeAfterWait[i] : i \in 1..Len(w.g.closeAfterWait)}],
                  w.g.closeAfterWait), LAMBDA w1 :
    WaitBody(Count(w1, "waitOps"), c))

\* Wait: the body, then the deferred closeFds(g.closeAfterWait)
Wait(w, c) ==
    Then(WaitBody(Count(w, "waitOps"), c), LAMBDA w1 :
    closeFds([w1 EXCEPT !.h.waited =
                  @ \cup {w.g.closeAfterWait[i] : i \in 1..Len(w.g.closeAfterWait)}],
             w.g.closeAfterWait))

Run(w, c) ==
    Then(Start(w, c), LAMBDA w1 :
    IF w1.err # Nil THEN w1 ELSE Wait(w1, c))

\* CombinedOutput that checks Stdout only
CombinedOutput_NoStderrCheck(w, c) ==
    IF w.g.Stdout # "nil" THEN Return(w, Err("StdoutAlreadySet"))
    ELSE Then(Run([w EXCEPT !.g.Stdout = "combinedBuf", !.g.Stderr = "combinedBuf"], c),
              LAMBDA w1 : [w1 EXCEPT !.out = w1.sinks["combinedBuf"]])

CombinedOutput(w, c) ==
    IF w.g.Stdout # "nil" THEN Return(w, Err("StdoutAlreadySet"))
    ELSE IF w.g.Stderr # "nil" THEN Return(w, Err("StderrAlreadySet"))
    ELSE Then(Run([w EXCEPT !.g.Stdout = "combinedBuf", !.g.Stderr = "combinedBuf"], c),
              LAMBDA w1 : [w1 EXCEPT !.out = w1.sinks["combinedBuf"]])

\* Output that captures stderr whether or not the caller set Stderr
Output_AlwaysCapture(w, c) ==
    IF w.g.Stdout # "nil" THEN Return(w, Err("StdoutAlreadySet"))
    ELSE Then(Run([w EXCEPT !.g.Stdout = "stdoutBuf", !.g.Stderr = "stderrBuf"], c),
              LAMBDA w1 :
         IF w1.err # Nil /\ w1.err.kind = "ExitError"
         THEN [w1 EXCEPT !.err.stderr = w1.sinks["stderrBuf"],
                         !.out = w1.sinks["stdoutBuf"]]
         ELSE [w1 EXCEPT !.out = w1.sinks["stdoutBuf"]])

Output(w, c) ==
    IF w.g.Stdout # "nil" THEN Return(w, Err("StdoutAlreadySet"))
    ELSE Then(Run([w EXCEPT !.g.Stdout = "stdoutBuf",
                            !.g.Stderr = IF @ = "nil" THEN "stderrBuf" ELSE @], c),
              LAMBDA w1 :
         IF w1.err # Nil /\ w.g.Stderr = "nil" /\ w1.err.kind = "ExitError"
         THEN [w1 EXCEPT !.err.stderr = w1.sinks["stderrBuf"],
                         !.out = w1.sinks["stdoutBuf"]]
         ELSE [w1 EXCEPT !.out = w1.sinks["stdoutBuf"]])

\* StdinPipe that registers the write end for Wait to close, as os/exec does
StdinPipe_CloseAfterWait(w) ==
    IF w.g.Stdin # "nil" THEN Return(w, Err("StdinAlreadySet"))
    ELSE Return([w EXCEPT !.g.Stdin = "stdinR",
                          !.g.closeAfterWait = Append(@, "stdinW"),
                          !.h.stdinEnds = @ \cup {"stdinR", "stdinW"}], Nil)

StdinPipe(w) ==
    IF w.g.Stdin # "nil" THEN Return(w, Err("StdinAlreadySet"))
    ELSE Return([w EXCEPT !.g.Stdin = "stdinR",
                          !.h.stdinEnds = @ \cup {"stdinR", "stdinW"}], Nil)

StdoutPipe(w) ==
    IF w.g.Stdout # "nil" THEN Return(w, Err("StdoutAlreadySet"))
    ELSE Return([w EXCEPT !.g.Stdout = "stdoutW",
                          !.g.closeAfterWait = Append(@, "stdoutW"),
                          !.h.outWriters = @ \cup {"stdoutW"}], Nil)

StderrPipe(w) ==
    IF w.g.Stderr # "nil" THEN Return(w, Err("StderrAlreadySet"))
    ELSE Return([w EXCEPT !.g.Stderr = StderrWriters[w.h.pipes + 1],
                          !.g.closeAfterWait = Append(@, StderrWriters[w.h.pipes + 1]),
                          !.h.pipes = @ + 1,
                          !.h.outWriters = @ \cup {StderrWriters[w.h.pipes + 1]}], Nil)

GetPID(w) ==
    IF w.g.started THEN Method_getID(w) ELSE [w EXCEPT !.pid = ""]

SetDir(w, dir) == [w EXCEPT !.g.Dir = dir]

SetStderr(w, writer) == [w EXCEPT !.g.Stderr = writer]

\* Kill that delegates to the strategy whether or not the Command is started
Kill_Always(w, c) == Method_kill(w, c)

Kill(w, c) ==
    IF w.g.started THEN Method_kill(w, c) ELSE Return(w, Nil)

Cleanup(w, c) == Method_cleanup(w, c)

(* ------------------------- the runtime's answers ----------------------- *)

\* the answers under which every request succeeds and the process exits 0
NoFail == [createFail |-> "none", runFail |-> "none", waitFail |-> "none",
           arm |-> "exit", code |-> 0, exitErr |-> FALSE, rm1 |-> FALSE,
           rm2 |-> FALSE, stop |-> FALSE, td |-> FALSE, cd |-> FALSE,
           errFirst |-> FALSE]

CreateFails(b) == IF b = "docker" THEN {"create"} ELSE {"lease", "nerdctl", "load"}
RunFails(b) == IF b = "docker" THEN {"start", "attach"}
               ELSE {"newTask", "spec", "exec", "psWait", "psStart"}

\* the answers to Start's requests that make it fail
StartFailInputs(b) ==
    {[NoFail EXCEPT !.createFail = f] : f \in CreateFails(b)}
        \cup {[NoFail EXCEPT !.runFail = f] : f \in RunFails(b)}

\* the answers to the requests of the strategy's wait
WaitInputs(b) ==
    IF b = "docker"
    THEN {[NoFail EXCEPT !.waitFail = f, !.rm2 = r2] :
              f \in {"cw", "wc"}, r2 \in BOOLEAN}
         \cup {[NoFail EXCEPT !.code = k, !.rm1 = r1, !.rm2 = r2] :
                  k \in ExitCodes, r1 \in BOOLEAN, r2 \in BOOLEAN}
    ELSE {[NoFail EXCEPT !.arm = "done", !.td = t, !.cd = d] :
              t \in BOOLEAN, d \in BOOLEAN}
         \cup {[NoFail EXCEPT !.code = k, !.exitErr = e, !.td = t, !.cd = d] :
                  k \in ExitCodes, e \in BOOLEAN, t \in BOOLEAN, d \in BOOLEAN}

StartInputs(b) == {NoFail} \cup StartFailInputs(b)
RunInputs(b) == StartFailInputs(b) \cup WaitInputs(b)
CombinedInputs(b) == RunInputs(b) \cup {[c EXCEPT !.errFirst = TRUE] : c \in WaitInputs(b)}

\* the answers to the requests of kill and cleanup
StopInputs(b) ==
    IF b = "docker"
    THEN {[NoFail EXCEPT !.stop = s, !.rm1 = r] : s \in BOOLEAN, r \in BOOLEAN}
    ELSE {[NoFail EXCEPT !.td = t, !.cd = d] : t \in BOOLEAN, d \in BOOLEAN}

(* ------------------------------- Init ---------------------------------- *)

\* the strategies a caller builds: ByCreatingContainer / ByCreatingTask with
\* or without a working directory and an environment in the options
NewMethod(b, dir, env) ==
    [backend |-> b, WorkingDir |-> dir, Env |-> env, cmd |-> <<>>,
     Cmd |-> <<>>, Entrypoint |-> <<>>, Mounts |-> <<>>, User |-> <<>>,
     AttachStdin |-> FALSE,
     AttachStdout |-> FALSE, AttachStderr |-> FALSE, OpenStdin |-> FALSE,
     StdinOnce |-> FALSE, id |-> "", cw |-> "nil",
     ctx |-> "nil", doneFunc |-> FALSE, container |-> "nil", task |-> "nil",
     process |-> "nil", exitChan |-> "nil",
     CommandDetails |-> [ExecutorId |-> 0, ChainExecutorId |-> 0, ResultId |-> 0]]

\* Docker.Command / Containerd.Command: only Path, Args, Method and client are set
NewCommand ==
    [Path |-> "echo", Args |-> <<"hi">>, Env |-> NilSlice, Dir |-> "",
     Stdin |-> "nil", Stdout |-> "nil", Stderr |-> "nil", started |-> FALSE,
     closeAfterWait |-> <<>>]

Backends == {"docker", "containerd"}
Dirs == {"", "/w"}
Envs == {NilSlice, Slice(<<>>), Slice(<<"K=V">>)}

\* the strategies a caller hands to Command: options with or without a working
\* directory and an environment, and for ByCreatingContainer also options
\* that hold a Cmd or an Entrypoint
Methods ==
    {NewMethod(b, dir, env) :
         b \in Backends, dir \in {"", "/opt"}, env \in {NilSlice, Slice(<<"A=1">>)}}
        \cup {[NewMethod("docker", "", NilSlice) EXCEPT !.Cmd = <<"sh">>],
              [NewMethod("docker", "", NilSlice) EXCEPT !.Entrypoint = <<"sh">>]}

(* ----------------------------- the factory ----------------------------- *)

\* a string the factory searches is a sequence of pieces
ResolvConf == <<"resolv", ".conf">>

\* strings.Contains
Contains(str, substr) ==
    \E i \in 0..(Len(str) - Len(substr)) :
        \A j \in 1..Len(substr) : str[i + j] = substr[j]

Mount(dest, options) ==
    [Type |-> "bind", Source |-> "/local/path", Destination |-> dest, Options |-> options]

ConfigMounts ==
    {Mount(<<"/go/src">>, <<"bind">>),
     Mount(<<"/etc/", "resolv", ".conf">>, <<"ro">>),
     Mount(<<"/etc/", "resolv", "/", ".conf">>, <<"bind", "ro">>)}

RECURSIVE SeqsUpTo(_, _)
SeqsUpTo(S, n) ==
    IF n = 0 THEN {<<>>}
    ELSE SeqsUpTo(S, n - 1)
             \cup {Append(q, x) : q \in {r \in SeqsUpTo(S, n - 1) : Len(r) = n - 1},
                                  x \in S}

\* the Config fields the factory reads
Configs ==
    {[Mounts |-> ms, Env |-> env, WorkingDir |-> dir, Executable |-> "echo",
      Args |-> <<"hi">>] :
         ms \in SeqsUpTo(ConfigMounts, MaxMounts),
         env \in {NilSlice, Slice(<<"A=1">>)},
         dir \in {"", "/opt"}}

\* the clients a caller can pass as interface{}: a *docker.Client, a
\* *containerd.Client with or without a default namespace, a value of another
\* type, and the nil interface
Clients ==
    {[type |-> "*docker.Client", defaultns |-> ""],
     [type |-> "*containerd.Client", defaultns |-> "unit-test"],
     [type |-> "*containerd.Client", defaultns |-> ""],
     [type |-> "*fakeClient", defaultns |-> ""],
     [type |-> "nil", defaultns |-> ""]}

\* no goroutine is inside a call
NoThreads == [wait |-> "none", kill |-> "none", op |-> "none",
              wres |-> [code |-> 0, err |-> Nil], kres |-> [code |-> 0, err |-> Nil]]

NoInput == [client |-> [type |-> "nil", defaultns |-> ""],
            config |-> [Mounts |-> <<>>, Env |-> NilSlice, WorkingDir |-> "",
                        Executable |-> "", Args |-> <<>>]]

\* no Cmd value
NoCommand ==
    [Path |-> "", Args |-> <<>>, Env |-> NilSlice, Dir |-> "",
     Stdin |-> "nil", Stdout |-> "nil", Stderr |-> "nil", started |-> FALSE,
     closeAfterWait |-> <<>>]

convertMount(T, mt) ==
    IF T = "docker.HostMount"
    THEN [Type |-> mt.Type, Source |-> mt.Source, Target |-> mt.Destination]
    ELSE [Type |-> mt.Type, Source |-> mt.Source, Destination |-> mt.Destination,
          Options |-> mt.Options]

\* a translation that returns the mounts in reverse order
convertMounts_Reversed(T, ms) ==
    [i \in 1..Len(ms) |-> convertMount(T, ms[Len(ms) + 1 - i])]

convertMounts(T, ms) == [i \in 1..Len(ms) |-> convertMount(T, ms[i])]

\* a filter that drops the resolv.conf mounts for every mount type
filterMounts_EveryType(T, ms) ==
    SelectSeq(ms, LAMBDA mt : ~Contains(mt.Destination, ResolvConf))

filterMounts(T, ms) ==
    IF T = "docker.HostMount"
    THEN SelectSeq(ms, LAMBDA mt : ~Contains(mt.Destination, ResolvConf))
    ELSE ms

getDockerExecution(config) ==
    [NewMethod("docker", "", config.Env) EXCEPT
        !.AttachStdout = TRUE,
        !.AttachStderr = TRUE,
        !.Mounts = convertMounts("docker.HostMount",
                                 filterMounts("docker.HostMount", config.Mounts))]

getContainerdExecution(config) ==
    [NewMethod("containerd", config.WorkingDir, config.Env) EXCEPT
        !.Mounts = convertMounts("specs.Mount",
                                 filterMounts("specs.Mount", config.Mounts))]

\* Docker.Command and Containerd.Command with a name and arguments
Docker_Command(method, name, arg) ==
    [panic |-> Nil, cmd |-> [NewCommand EXCEPT !.Path = name, !.Args = arg],
     Method |-> method]

Containerd_Command(method, name, arg) ==
    [panic |-> Nil, cmd |-> [NewCommand EXCEPT !.Path = name, !.Args = arg],
     Method |-> method]

\* a panic of the factory: no Cmd is returned
FactoryPanic(e) ==
    [panic |-> e, cmd |-> NoCommand, Method |-> NewMethod("none", "", NilSlice)]

\* the factory without the check of the default namespace
Command_NoNamespaceCheck(client, config) ==
    IF client.type = "*docker.Client"
    THEN Docker_Command(getDockerExecution(config), config.Executable, config.Args)
    ELSE IF client.type = "*containerd.Client"
    THEN Containerd_Command(getContainerdExecution(config),
                            config.Executable, config.Args)
    ELSE FactoryPanic(Err("UnsupportedClient"))

Command(client, config) ==
    IF client.type = "*docker.Client"
    THEN Docker_Command(getDockerExecution(config), config.Executable, config.Args)
    ELSE IF client.type = "*containerd.Client"
    THEN IF client.defaultns = ""
         THEN FactoryPanic(Err("NamespaceNotSet"))
         ELSE Containerd_Command(getContainerdExecution(config),
                                 config.Executable, config.Args)
    ELSE FactoryPanic(Err("UnsupportedClient"))

(* ----------- the Command a caller builds from its own strategy ---------- *)

Init ==
    /\ g = NewCommand
    /\ m \in Methods
    /\ rt = [dstate |-> "absent", boundOut |-> "nil", boundErr |-> "nil",
             delivered |-> FALSE, lease |-> FALSE, ctxDone |-> FALSE,
             tcontainer |-> FALSE, ttask |-> FALSE, proc |-> "none", chan |-> "none"]
    /\ closes = [x \in Closers |-> 0]
    /\ sinks = [x \in Sinks |-> <<>>]
    /\ h = [createCalls |-> 0, runCalls |-> 0, waitCalls |-> 0, killCalls |-> 0,
            cleanupCalls |-> 0, removeReqs |-> 0, stopReqs |-> 0,
            taskDeleteReqs |-> 0, containerDeleteReqs |-> 0, startCalls |-> 0,
            createOK |-> 0, startOK |-> 0, waitOps |-> 0, pipes |-> 0, waited |-> {},
            stdinEnds |-> {}, outWriters |-> {}]
    /\ calls = <<>>
    /\ ret = [op |-> "Command", err |-> Nil, out |-> <<>>, pid |-> "",
              swait |-> [called |-> FALSE, code |-> 0, err |-> Nil],
              status |-> [got |-> FALSE, code |-> 0, err |-> Nil]]
    /\ nops = 0
    /\ crashed = FALSE
    /\ input = NoInput
    /\ pc = NoThreads

(* ------------------------------ actions -------------------------------- *)

\* the handler op ran and left the world w
Apply(op, w, n) ==
    /\ g' = w.g
    /\ m' = w.m
    /\ rt' = w.rt
    /\ closes' = w.closes
    /\ sinks' = w.sinks
    /\ h' = w.h
    /\ calls' = w.calls
    /\ ret' = [op |-> op, err |-> w.err, out |-> w.out, pid |-> w.pid,
               swait |-> w.swait, status |-> w.status]
    /\ nops' = n
    /\ crashed' = w.panic
    /\ input' = input
    /\ pc' = pc

CanCall == ~crashed /\ nops < MaxOps
CanCallTwo == ~crashed /\ nops + 1 < MaxOps

DoStart ==
    /\ CanCall
    /\ \E c \in StartInputs(m.backend) : Apply("Start", Start(World, c), nops + 1)

DoWait ==
    /\ CanCall
    /\ \E c \in WaitInputs(m.backend) : Apply("Wait", Wait(World, c), nops + 1)

DoRun ==
    /\ CanCallTwo
    /\ \E c \in RunInputs(m.backend) : Apply("Run", Run(World, c), nops + 2)

DoOutput ==
    /\ CanCallTwo
    /\ \E c \in RunInputs(m.backend) : Apply("Output", Output(World, c), nops + 2)

DoCombinedOutput ==
    /\ CanCallTwo
    /\ \E c \in CombinedInputs(m.backend) :
           Apply("CombinedOutput", CombinedOutput(World, c), nops + 2)

DoKill ==
    /\ CanCall
    /\ \E c \in StopInputs(m.backend) : Apply("Kill", Kill(World, c), nops + 1)

DoCleanup ==
    /\ CanCall
    /\ \E c \in StopInputs(m.backend) : Apply("Cleanup", Cleanup(World, c), nops + 1)

DoGetPID ==
    /\ CanCall
    /\ Apply("GetPID", GetPID(World), nops + 1)

\* calls that configure the Command are free before the first lifecycle call
\* and count towards MaxOps after it
Later == IF nops = 0 THEN 0 ELSE nops + 1

DoStdinPipe ==
    /\ CanCall
    /\ Apply("StdinPipe", StdinPipe(World), Later)

DoStdoutPipe ==
    /\ CanCall
    /\ Apply("StdoutPipe", StdoutPipe(World), Later)

DoStderrPipe ==
    /\ CanCall
    /\ g.Stderr # "nil" \/ h.pipes < MaxPipes
    /\ Apply("StderrPipe", StderrPipe(World), Later)

DoSetDir ==
    /\ CanCall
    /\ \E dir \in Dirs : Apply("SetDir", SetDir(World, dir), Later)

DoSetStderr ==
    /\ CanCall
    /\ \E writer \in {"nil", "callerErr"} :
           Apply("SetStderr", SetStderr(World, writer), Later)

\* the caller assigns the exported fields Env, Stdin and Stdout
AssignEnv ==
    /\ CanCall
    /\ \E env \in Envs : Apply("assign", [World EXCEPT !.g.Env = env], Later)

AssignStdin ==
    /\ CanCall
    /\ Apply("assign", [World EXCEPT !.g.Stdin = "callerIn"], Later)

AssignStdout ==
    /\ CanCall
    /\ Apply("assign", [World EXCEPT !.g.Stdout = "callerOut"], Later)

\* a caller that sets the working directory, the environment and Stdin, and
\* leaves Stdout and Stderr nil
Next ==
    \/ DoStart
    \/ DoWait
    \/ DoRun
    \/ DoKill
    \/ DoCleanup
    \/ DoGetPID
    \/ DoSetDir
    \/ AssignEnv
    \/ AssignStdin

Spec == Init /\ [][Next]_vars

\* a caller that sets Stdout and Stderr and takes pipes, on a strategy without
\* working directory and environment
InitStreams ==
    /\ Init
    /\ m.WorkingDir = ""
    /\ m.Env = NilSlice
    /\ m.Cmd = <<>>
    /\ m.Entrypoint = <<>>

NextStreams ==
    \/ DoStart
    \/ DoWait
    \/ DoRun
    \/ DoOutput
    \/ DoCombinedOutput
    \/ DoKill
    \/ DoCleanup
    \/ DoStdinPipe
    \/ DoStdoutPipe
    \/ DoStderrPipe
    \/ DoSetStderr
    \/ AssignStdout

SpecStreams == InitStreams /\ [][NextStreams]_vars

\* a caller that misuses the Command: calls out of order, repeated calls, and
\* fields that are already set
NextMisuse ==
    \/ DoStart
    \/ DoWait
    \/ DoOutput
    \/ DoCombinedOutput
    \/ DoStdinPipe
    \/ DoStdoutPipe
    \/ DoStderrPipe
    \/ DoSetDir
    \/ AssignEnv

\* on a strategy whose options hold both a working directory and an
\* environment, or neither
InitMisuse == Init /\ (m.WorkingDir = "" <=> m.Env = NilSlice)

SpecMisuse == InitMisuse /\ [][NextMisuse]_vars

\* a caller that obtains its Command from the factory and then sets it up
InitFactory ==
    /\ input \in [client : Clients, config : Configs]
    /\ pc = NoThreads
    /\ g = NoCommand
    /\ m = NewMethod("none", "", NilSlice)
    /\ rt = [dstate |-> "absent", boundOut |-> "nil", boundErr |-> "nil",
             delivered |-> FALSE, lease |-> FALSE, ctxDone |-> FALSE,
             tcontainer |-> FALSE, ttask |-> FALSE, proc |-> "none", chan |-> "none"]
    /\ closes = [x \in Closers |-> 0]
    /\ sinks = [x \in Sinks |-> <<>>]
    /\ h = [createCalls |-> 0, runCalls |-> 0, waitCalls |-> 0, killCalls |-> 0,
            cleanupCalls |-> 0, removeReqs |-> 0, stopReqs |-> 0,
            taskDeleteReqs |-> 0, containerDeleteReqs |-> 0, startCalls |-> 0,
            createOK |-> 0, startOK |-> 0, waitOps |-> 0, pipes |-> 0, waited |-> {},
            stdinEnds |-> {}, outWriters |-> {}]
    /\ calls = <<>>
    /\ ret = [op |-> "none", err |-> Nil, out |-> <<>>, pid |-> "",
              swait |-> [called |-> FALSE, code |-> 0, err |-> Nil],
              status |-> [got |-> FALSE, code |-> 0, err |-> Nil]]
    /\ nops = 0
    /\ crashed = FALSE

DoCommand ==
    /\ ~crashed
    /\ ret.op = "none"
    /\ Apply("Command",
             Then(Command(input.client, input.config), LAMBDA r :
                  IF r.panic # Nil
                  THEN [World EXCEPT !.panic = TRUE, !.err = r.panic]
                  ELSE [World EXCEPT !.g = r.cmd, !.m = r.Method]),
             nops)

HasCommand == ret.op # "none" /\ m.backend \in Backends

NextFactory ==
    \/ DoCommand
    \/ HasCommand /\ DoGetPID
    \/ HasCommand /\ DoSetDir
    \/ HasCommand /\ AssignEnv

SpecFactory == InitFactory /\ [][NextFactory]_vars

\* a strategy built for any triple of identity fields, and the names it
\* generates
InitNames ==
    /\ g = NewCommand
    /\ m \in {[NewMethod("containerd", "", NilSlice) EXCEPT
                  !.CommandDetails = [ExecutorId |-> e, ChainExecutorId |-> ce,
                                      ResultId |-> r]] :
                 e \in Int64, ce \in Int64, r \in Int64}
    /\ rt = [dstate |-> "absent", boundOut |-> "nil", boundErr |-> "nil",
             delivered |-> FALSE, lease |-> FALSE, ctxDone |-> FALSE,
             tcontainer |-> FALSE, ttask |-> FALSE, proc |-> "none", chan |-> "none"]
    /\ closes = [x \in Closers |-> 0]
    /\ sinks = [x \in Sinks |-> <<>>]
    /\ h = [createCalls |-> 0, runCalls |-> 0, waitCalls |-> 0, killCalls |-> 0,
            cleanupCalls |-> 0, removeReqs |-> 0, stopReqs |-> 0,
            taskDeleteReqs |-> 0, containerDeleteReqs |-> 0, startCalls |-> 0,
            createOK |-> 0, startOK |-> 0, waitOps |-> 0, pipes |-> 0, waited |-> {},
            stdinEnds |-> {}, outWriters |-> {}]
    /\ calls = <<>>
    /\ ret = [op |-> "Command", err |-> Nil, out |-> <<>>, pid |-> "",
              swait |-> [called |-> FALSE, code |-> 0, err |-> Nil],
              status |-> [got |-> FALSE, code |-> 0, err |-> Nil]]
    /\ nops = 0
    /\ crashed = FALSE
    /\ input = NoInput
    /\ pc = NoThreads

DoGenerateContainerName ==
    /\ ~crashed
    /\ nops = 0
    /\ \E suffix \in RandomStrings(randomSuffixLength), arch \in {"amd64", "arm64"} :
           Apply("generateContainerName",
                 createTask_generateContainerName(World, suffix, arch), 1)

NextNames == DoGenerateContainerName

SpecNames == InitNames /\ [][NextNames]_vars

\* a caller of the strategy's setters alone: input records what the options
\* held at first and the arguments passed so far
SetterDirs == {"", "/w", "/x"}
SetterEnvs == {NilSlice, Slice(<<>>), Slice(<<"K=V">>), Slice(<<"B=2">>)}

InitSetters ==
    /\ g = NewCommand
    /\ m \in Methods
    /\ rt = [dstate |-> "absent", boundOut |-> "nil", boundErr |-> "nil",
             delivered |-> FALSE, lease |-> FALSE, ctxDone |-> FALSE,
             tcontainer |-> FALSE, ttask |-> FALSE, proc |-> "none", chan |-> "none"]
    /\ closes = [x \in Closers |-> 0]
    /\ sinks = [x \in Sinks |-> <<>>]
    /\ h = [createCalls |-> 0, runCalls |-> 0, waitCalls |-> 0, killCalls |-> 0,
            cleanupCalls |-> 0, removeReqs |-> 0, stopReqs |-> 0,
            taskDeleteReqs |-> 0, containerDeleteReqs |-> 0, startCalls |-> 0,
            createOK |-> 0, startOK |-> 0, waitOps |-> 0, pipes |-> 0, waited |-> {},
            stdinEnds |-> {}, outWriters |-> {}]
    /\ calls = <<>>
    /\ ret = [op |-> "Command", err |-> Nil, out |-> <<>>, pid |-> "",
              swait |-> [called |-> FALSE, code |-> 0, err |-> Nil],
              status |-> [got |-> FALSE, code |-> 0, err |-> Nil]]
    /\ nops = 0
    /\ crashed = FALSE
    /\ input = [WorkingDir |-> m.WorkingDir, Env |-> m.Env, dirs |-> <<>>, envs |-> <<>>]
    /\ pc = NoThreads

\* the setter op ran and left the world w; in is the record of the arguments
ApplySetter(op, w, in) ==
    /\ g' = w.g
    /\ m' = w.m
    /\ rt' = w.rt
    /\ closes' = w.closes
    /\ sinks' = w.sinks
    /\ h' = w.h
    /\ calls' = w.calls
    /\ ret' = [op |-> op, err |-> w.err, out |-> w.out, pid |-> w.pid,
               swait |-> w.swait, status |-> w.status]
    /\ nops' = nops + 1
    /\ crashed' = w.panic
    /\ input' = in
    /\ pc' = pc

DoMethodSetDir ==
    /\ CanCall
    /\ \E dir \in SetterDirs :
           ApplySetter("setDir", Method_setDir(World, dir),
                       [input EXCEPT !.dirs = Append(@, dir)])

DoMethodSetEnv ==
    /\ CanCall
    /\ \E env \in SetterEnvs :
           ApplySetter("setEnv", Method_setEnv(World, env),
                       [input EXCEPT !.envs = Append(@, env)])

NextSetters == DoMethodSetDir \/ DoMethodSetEnv

SpecSetters == InitSetters /\ [][NextSetters]_vars

\* a caller of the strategy's kill and cleanup alone, on a strategy that holds
\* its handles, as the tests of cleanup build it; the runtime may or may not
\* still have the task and the container
InitStrategy ==
    /\ g = NewCommand
    /\ m \in {[NewMethod("containerd", "", NilSlice) EXCEPT
                  !.ctx = "ctx", !.container = "container", !.task = "task",
                  !.doneFunc = d] : d \in BOOLEAN}
             \cup {[NewMethod("docker", "", NilSlice) EXCEPT !.id = ContainerID]}
    /\ rt \in {[dstate |-> ds, boundOut |-> "nil", boundErr |-> "nil",
                delivered |-> FALSE, lease |-> l, ctxDone |-> FALSE,
                tcontainer |-> tc, ttask |-> tt, proc |-> "none", chan |-> "none"] :
                   ds \in {"absent", "created", "running", "exited"},
                   l \in BOOLEAN, tc \in BOOLEAN, tt \in BOOLEAN}
    /\ IF m.backend = "docker"
       THEN ~rt.lease /\ ~rt.tcontainer /\ ~rt.ttask
       ELSE rt.dstate = "absent" /\ rt.lease = m.doneFunc
    /\ closes = [x \in Closers |-> 0]
    /\ sinks = [x \in Sinks |-> <<>>]
    /\ h = [createCalls |-> 0, runCalls |-> 0, waitCalls |-> 0, killCalls |-> 0,
            cleanupCalls |-> 0, removeReqs |-> 0, stopReqs |-> 0,
            taskDeleteReqs |-> 0, containerDeleteReqs |-> 0, startCalls |-> 0,
            createOK |-> 0, startOK |-> 0, waitOps |-> 0, pipes |-> 0, waited |-> {},
            stdinEnds |-> {}, outWriters |-> {}]
    /\ calls = <<>>
    /\ ret = [op |-> "Command", err |-> Nil, out |-> <<>>, pid |-> "",
              swait |-> [called |-> FALSE, code |-> 0, err |-> Nil],
              status |-> [got |-> FALSE, code |-> 0, err |-> Nil]]
    /\ nops = 0
    /\ crashed = FALSE
    /\ input = NoInput
    /\ pc = NoThreads

DoMethodKill ==
    /\ CanCall
    /\ \E c \in StopInputs(m.backend) : Apply("kill", Method_kill(World, c), nops + 1)

DoMethodCleanup ==
    /\ CanCall
    /\ \E c \in StopInputs(m.backend) :
           Apply("cleanup", Method_cleanup(World, c), nops + 1)

NextStrategy == DoMethodKill \/ DoMethodCleanup

SpecStrategy == InitStrategy /\ [][NextStrategy]_vars

(* --------------------- createTask.createProcessSpec -------------------- *)

\* uint32(v) of an int64: the low half of the bits
uint32(v) == v % (2 ^ (IntBits \div 2))

\* the value of a digit character, -1 for any other character
DigitValue(ch) ==
    IF \E d \in 1..10 : DecimalDigits[d] = ch
    THEN (CHOOSE d \in 1..10 : DecimalDigits[d] = ch) - 1
    ELSE -1

\* the value of a string of decimal digits, -1 when a character is no digit
RECURSIVE ParseDigits(_)
ParseDigits(str) ==
    IF Len(str) = 0 THEN 0
    ELSE IF DigitValue(str[Len(str)]) < 0 \/ ParseDigits(SubSeq(str, 1, Len(str) - 1)) < 0
    THEN -1
    ELSE 10 * ParseDigits(SubSeq(str, 1, Len(str) - 1)) + DigitValue(str[Len(str)])

\* strconv.ParseInt(str, 10, 64): an optional sign, then one digit or more; a
\* value out of the range of int64 is an error
ParseInt(str) ==
    LET neg == Len(str) > 0 /\ str[1] = "-"
        signed == Len(str) > 0 /\ str[1] \in {"-", "+"}
        digits == IF signed THEN SubSeq(str, 2, Len(str)) ELSE str
        v == IF neg THEN -ParseDigits(digits) ELSE ParseDigits(digits)
    IN  IF Len(digits) = 0 \/ ParseDigits(digits) < 0 THEN [ok |-> FALSE, v |-> 0]
        ELSE IF v \notin Int64 THEN [ok |-> FALSE, v |-> 0]
        ELSE [ok |-> TRUE, v |-> v]

\* createProcessSpec on the spec the container gives; the result is the
\* process of that spec, changed in place
createTask_createProcessSpec(w, spec, fail) ==
    IF fail THEN [w |-> Return(Called(w, "Spec"), Err("GetSpecFailed")), spec |-> spec]
    ELSE [w |-> Return(Called(w, "Spec"), Nil),
          spec |-> [spec EXCEPT !.Args = w.m.cmd,
                                !.Cwd = w.m.WorkingDir,
                                !.UID = IF ParseInt(w.m.User).ok
                                        THEN uint32(ParseInt(w.m.User).v) ELSE @]]

\* the characters of the User strings
UserChars == {"-", "+", "0", "1", "7", "8", "9", "a"}

\* the longest User string: a sign and the digits of the least int64
MaxUserLen == Len(FormatUint(-MinInt64)) + 1

Users == UNION {[1..n -> UserChars] : n \in 0..MaxUserLen}

InitProcess ==
    /\ g = NewCommand
    /\ m \in {[NewMethod("containerd", dir, NilSlice) EXCEPT
                  !.User = u, !.cmd = <<"echo", "hi">>, !.container = "container",
                  !.ctx = "ctx"] :
                 dir \in Dirs, u \in Users}
    /\ rt = [dstate |-> "absent", boundOut |-> "nil", boundErr |-> "nil",
             delivered |-> FALSE, lease |-> TRUE, ctxDone |-> FALSE,
             tcontainer |-> TRUE, ttask |-> FALSE, proc |-> "none", chan |-> "none"]
    /\ closes = [x \in Closers |-> 0]
    /\ sinks = [x \in Sinks |-> <<>>]
    /\ h = [createCalls |-> 0, runCalls |-> 0, waitCalls |-> 0, killCalls |-> 0,
            cleanupCalls |-> 0, removeReqs |-> 0, stopReqs |-> 0,
            taskDeleteReqs |-> 0, containerDeleteReqs |-> 0, startCalls |-> 0,
            createOK |-> 0, startOK |-> 0, waitOps |-> 0, pipes |-> 0, waited |-> {},
            stdinEnds |-> {}, outWriters |-> {}]
    /\ calls = <<>>
    /\ ret = [op |-> "Command", err |-> Nil, out |-> <<>>, pid |-> "",
              swait |-> [called |-> FALSE, code |-> 0, err |-> Nil],
              status |-> [got |-> FALSE, code |-> 0, err |-> Nil]]
    /\ nops = 0
    /\ crashed = FALSE
    /\ input \in {[Args |-> <<>>, Cwd |-> "/", UID |-> uid] :
                     uid \in 0..(2 ^ (IntBits \div 2) - 1)}
    /\ pc = NoThreads

DoCreateProcessSpec ==
    /\ ~crashed
    /\ nops = 0
    /\ \E fail \in BOOLEAN :
           LET r == createTask_createProcessSpec(World, input, fail)
           IN  ApplySetter("createProcessSpec", r.w, r.spec)

NextProcess == DoCreateProcessSpec

SpecProcess == InitProcess /\ [][NextProcess]_vars

(* ------------------------------ GetStats ------------------------------- *)

\* a time string is a sequence of pieces, one piece per field or separator;
\* a piece is a sequence of characters. The elements of the reference time
\* that a layout may hold:
stdLongYear == <<"2", "0", "0", "6">>
stdZeroMonth == <<"0", "1">>
stdISO8601ColonTZ == <<"Z", "0", "7", ":", "0", "0">>

\* time.RFC3339, scaled down to the year, the month and the zone
RFC3339 == <<stdLongYear, <<"-">>, stdZeroMonth, stdISO8601ColonTZ>>

\* an instant, in months
Instant(year, month) == year * 12 + (month - 1)

\* time.Parse(layout, value): each piece of the layout that is an element of
\* the reference time reads a field from the value, every other piece of the
\* layout must be in the value as it is; a field the layout does not hold
\* keeps its zero value (year 0, January). Of the zones only "Z" is read.
time_Parse(layout, value) ==
    LET Field(e) == IF \E i \in 1..Len(layout) : layout[i] = e
                    THEN ParseDigits(value[CHOOSE i \in 1..Len(layout) : layout[i] = e])
                    ELSE IF e = stdLongYear THEN 0 ELSE 1
        Reads(i) ==
            IF layout[i] = stdLongYear
            THEN Len(value[i]) = 4 /\ ParseDigits(value[i]) >= 0
            ELSE IF layout[i] = stdZeroMonth
            THEN Len(value[i]) = 2 /\ ParseDigits(value[i]) \in 1..12
            ELSE IF layout[i] = stdISO8601ColonTZ
            THEN value[i] = <<"Z">>
            ELSE value[i] = layout[i]
    IN  IF Len(value) = Len(layout) /\ \A i \in 1..Len(layout) : Reads(i)
        THEN [ok |-> TRUE, t |-> Instant(Field(stdLongYear), Field(stdZeroMonth))]
        ELSE [ok |-> FALSE, t |-> 0]

ZeroStats ==
    [Running |-> 0, Created |-> 0, Stopped |-> 0, Paused |-> 0, Pausing |-> 0,
     Unknown |-> 0, DeadlineExceeded |-> 0, Errors |-> 0]

\* containerd's task statuses
TaskStatuses == {"Running", "Created", "Stopped", "Paused", "Pausing", "Unknown"}

\* the body of the loop over the listed containers, for one container
getContainerdStats_container(stats, container, now) ==
    LET parsed == time_Parse(container.deadline, RFC3339)
        s1 == IF container.labelsErr THEN [stats EXCEPT !.Errors = @ + 1]
              ELSE IF ~container.hasDeadline THEN stats
              ELSE IF parsed.ok /\ now > parsed.t
              THEN [stats EXCEPT !.DeadlineExceeded = @ + 1]
              ELSE IF ~parsed.ok THEN [stats EXCEPT !.Errors = @ + 1]
              ELSE stats
    IN  IF container.task \in {"TaskError", "StatusError"}
        THEN [s1 EXCEPT !.Errors = @ + 1]
        ELSE IF container.task \in TaskStatuses
        THEN [s1 EXCEPT ![container.task] = @ + 1]
        ELSE s1

RECURSIVE getContainerdStats_loop(_, _, _)
getContainerdStats_loop(stats, containers, now) ==
    IF Len(containers) = 0 THEN stats
    ELSE getContainerdStats_loop(getContainerdStats_container(stats, Head(containers), now),
                                 Tail(containers), now)

getContainerdStats(containers, now, fail) ==
    IF fail THEN [stats |-> ZeroStats, err |-> Err("GetStatsFailed")]
    ELSE [stats |-> getContainerdStats_loop(ZeroStats, containers, now), err |-> Nil]

GetStats(client, containers, now, fail) ==
    IF client.type = "*containerd.Client" THEN getContainerdStats(containers, now, fail)
    ELSE [stats |-> ZeroStats, err |-> Nil]

\* the values of the chains/deadline label: timestamps before and after the
\* instants of the calls, the reference time itself, a month that does not
\* exist, text that is no timestamp, and the text of the layout
DeadlineLabels ==
    {<<<<"1", "9", "9", "9">>, <<"-">>, <<"1", "2">>, <<"Z">>>>,
     <<<<"2", "9", "9", "9">>, <<"-">>, <<"0", "1">>, <<"Z">>>>,
     <<stdLongYear, <<"-">>, stdZeroMonth, <<"Z">>>>,
     <<<<"1", "9", "9", "9">>, <<"-">>, <<"1", "3">>, <<"Z">>>>,
     <<<<"a">>>>,
     RFC3339}

\* what containerd answers for one listed container: its labels or an error,
\* and its task's status or an error
ListedContainers ==
    {[labelsErr |-> TRUE, hasDeadline |-> FALSE, deadline |-> <<>>, task |-> t] :
         t \in TaskStatuses \cup {"TaskError", "StatusError"}}
        \cup {[labelsErr |-> FALSE, hasDeadline |-> FALSE, deadline |-> <<>>,
               task |-> t] : t \in TaskStatuses \cup {"TaskError", "StatusError"}}
        \cup {[labelsErr |-> FALSE, hasDeadline |-> TRUE, deadline |-> d, task |-> t] :
                 d \in DeadlineLabels,
                 t \in TaskStatuses \cup {"TaskError", "StatusError"}}

InitStats ==
    /\ g = NoCommand
    /\ m = NewMethod("none", "", NilSlice)
    /\ rt = [dstate |-> "absent", boundOut |-> "nil", boundErr |-> "nil",
             delivered |-> FALSE, lease |-> FALSE, ctxDone |-> FALSE,
             tcontainer |-> FALSE, ttask |-> FALSE, proc |-> "none", chan |-> "none"]
    /\ closes = [x \in Closers |-> 0]
    /\ sinks = [x \in Sinks |-> <<>>]
    /\ h = [createCalls |-> 0, runCalls |-> 0, waitCalls |-> 0, killCalls |-> 0,
            cleanupCalls |-> 0, removeReqs |-> 0, stopReqs |-> 0,
            taskDeleteReqs |-> 0, containerDeleteReqs |-> 0, startCalls |-> 0,
            createOK |-> 0, startOK |-> 0, waitOps |-> 0, pipes |-> 0, waited |-> {},
            stdinEnds |-> {}, outWriters |-> {}]
    /\ calls = <<>>
    /\ ret = [op |-> "none", err |-> Nil, out |-> <<>>, pid |-> "",
              swait |-> [called |-> FALSE, code |-> 0, err |-> Nil],
              status |-> [got |-> FALSE, code |-> 0, err |-> Nil]]
    /\ nops = 0
    /\ crashed = FALSE
    /\ input \in {[client |-> c, containers |-> cs, now |-> 0, stats |-> ZeroStats] :
                     c \in {x \in Clients : x.type # "nil"},
                     cs \in SeqsUpTo(ListedContainers, MaxContainers)}
    /\ pc = NoThreads

\* GetStats at an instant of 2026 or of 2001
DoGetStats ==
    /\ ~crashed
    /\ nops = 0
    /\ \E now \in {Instant(2026, 11), Instant(2001, 1)}, fail \in BOOLEAN :
           LET r == GetStats(input.client, input.containers, now, fail)
           IN  ApplySetter("GetStats", [World EXCEPT !.err = r.err],
                           [input EXCEPT !.now = now, !.stats = r.stats])

NextStats == DoGetStats

SpecStats == InitStats /\ [][NextStats]_vars

(* ------------- one daemon strategy given to two Commands --------------- *)

InitShared == Init /\ m.backend = "docker"

\* d.Command(method, "ls") with the strategy an earlier Command already
\* holds, and the caller's assignments to Dir and Env of the new Command; the
\* calls that follow are made on the new Command
DoCommandAgain ==
    /\ ~crashed
    /\ g.Path = NewCommand.Path
    /\ \E dir \in Dirs, env \in Envs :
           Apply("Command",
                 [World EXCEPT !.g = [NewCommand EXCEPT !.Path = "ls", !.Args = <<>>,
                                                        !.Dir = dir, !.Env = env]],
                 nops)

NextShared ==
    \/ DoStart
    \/ DoWait
    \/ DoKill
    \/ DoSetDir
    \/ AssignEnv
    \/ DoCommandAgain

SpecShared == InitShared /\ [][NextShared]_vars

(* ------------- Wait and Kill / Cleanup in two goroutines --------------- *)

\* the requests of a handler in the order the code makes them; a goroutine
\* is at the request it makes next
createContainer_waitSteps == <<"cw.Wait", "WaitContainer", "del", "deferred del">>
createContainer_killSteps == <<"StopContainer">>
createContainer_cleanupSteps == <<"StopContainer", "RemoveContainer">>
\* cleanup that runs the stored cancellation before its delete requests
createTask_cleanupSteps_CancelFirst ==
    <<"deleteLease", "cancel", "task.Delete", "container.Delete">>
createTask_cleanupSteps == <<"task.Delete", "container.Delete", "deleteLease", "cancel">>
createTask_waitSteps == <<"select">> \o createTask_cleanupSteps

Position(steps, at) == CHOOSE i \in 1..Len(steps) : steps[i] = at

\* the request after at, and the next request named target after at (the
\* handler returns where there is none)
Following(steps, at) ==
    IF Position(steps, at) < Len(steps) THEN steps[Position(steps, at) + 1] ELSE "return"

JumpTo(steps, at, target) ==
    IF \E j \in (Position(steps, at) + 1)..Len(steps) : steps[j] = target
    THEN target ELSE "return"

Outcome(w, at, res) == [w |-> w, at |-> at, res |-> res]

\* one request of createTask.cleanup and the branch taken on its answer
createTask_cleanupStep(steps, at, w, res) ==
    IF at = "task.Delete"
    THEN Then(TaskDelete(w, FALSE), LAMBDA w1 :
         IF w1.rerr \notin {"nil", "NotFound"}
         THEN Outcome(w1, JumpTo(steps, at, "deleteLease"),
                      [res EXCEPT !.err = Err("DeleteTaskFailed")])
         ELSE Outcome(w1, Following(steps, at), res))
    ELSE IF at = "container.Delete"
    THEN Then(ContainerDelete(w, FALSE), LAMBDA w1 :
         Outcome(w1, Following(steps, at),
                 [res EXCEPT !.err = IF w1.rerr \in {"nil", "NotFound"} THEN Nil
                                     ELSE Err("DeleteContainerFailed")]))
    ELSE IF at = "deleteLease"
    THEN Outcome(IF w.m.doneFunc /\ w.m.ctx # "nil" THEN deleteLease(w) ELSE w,
                 Following(steps, at), res)
    ELSE Outcome(IF w.m.doneFunc /\ w.m.ctx # "nil"
                 THEN Called([w EXCEPT !.rt.ctxDone = TRUE], "cancel") ELSE w,
                 Following(steps, at), res)

\* the select of createTask.wait: the arms that can fire
SelectArms(w) ==
    {a \in {"exit", "done"} :
        IF a = "exit"
        THEN /\ w.m.exitChan # "nil"
             /\ \/ w.rt.chan = "closed"
                \/ w.rt.chan = "open" /\ w.rt.proc = "exited"
        ELSE w.rt.ctxDone}

\* one step of createTask.wait: the select, then the deferred cleanup, whose
\* result is dropped
createTask_waitStep(steps, at, w, res, arm, code, exitErr) ==
    IF at = "select"
    THEN Then(createTask_waitBody(Called(w, "select: " \o arm),
                                  [NoFail EXCEPT !.arm = arm, !.code = code,
                                                 !.exitErr = exitErr]), LAMBDA w1 :
         Outcome(w1, Following(steps, at), [code |-> w1.code, err |-> w1.err]))
    ELSE Then(createTask_cleanupStep(steps, at, w, res), LAMBDA o :
         Outcome(o.w, o.at, res))

\* one step of createContainer.wait
createContainer_waitStep(steps, at, w, res, code) ==
    IF at = "cw.Wait"
    THEN IF w.m.cw = "nil"
         THEN Outcome(w, JumpTo(steps, at, "deferred del"),
                      [code |-> -1, err |-> Err("NotAttached")])
         ELSE Outcome(Called(Deliver(w, FALSE), "cw.Wait"), Following(steps, at), res)
    ELSE IF at = "WaitContainer"
    THEN IF w.rt.dstate = "absent"
         THEN Outcome(Called(w, "WaitContainer"), JumpTo(steps, at, "deferred del"),
                      [code |-> -1, err |-> Err("WaitContainerFailed")])
         ELSE Outcome(Called([w EXCEPT !.status = [got |-> TRUE, code |-> code,
                                                   err |-> Nil]], "WaitContainer"),
                      Following(steps, at), [code |-> code, err |-> Nil])
    ELSE IF at = "del"
    THEN Then(RemoveContainer(w, w.m.id, TRUE, FALSE), LAMBDA w1 :
         Outcome(w1, Following(steps, at),
                 IF w1.rerr # "nil"
                 THEN [code |-> -1, err |-> Err("DeleteContainerFailed")] ELSE res))
    ELSE Outcome(RemoveContainer(w, w.m.id, TRUE, FALSE), Following(steps, at), res)

\* one step of createContainer.kill
createContainer_killStep(steps, at, w, res) ==
    Then(StopContainer(w, w.m.id, 1, FALSE), LAMBDA w1 :
    Outcome(w1, Following(steps, at),
            [res EXCEPT !.err = IF w1.rerr \in {"nil", "NoSuchContainer",
                                                "ContainerNotRunning"}
                                THEN Nil ELSE Err("StopContainerFailed")]))

\* one step of createContainer.cleanup
createContainer_cleanupStep(steps, at, w, res) ==
    IF at = "StopContainer"
    THEN Then(StopContainer(w, w.m.id, 1, FALSE), LAMBDA w1 :
         IF w1.rerr = "NoSuchContainer"
         THEN Outcome(w1, "return", [res EXCEPT !.err = Nil])
         ELSE IF w1.rerr \notin {"nil", "ContainerNotRunning"}
         THEN Outcome(w1, "return", [res EXCEPT !.err = Err("StopContainerFailed")])
         ELSE Outcome(w1, Following(steps, at), res))
    ELSE Then(RemoveContainer(w, w.m.id, FALSE, FALSE), LAMBDA w1 :
         Outcome(w1, Following(steps, at),
                 [res EXCEPT !.err = IF w1.rerr # "nil"
                                     THEN Err("RemoveContainerFailed") ELSE Nil]))

WaitSteps(b) == IF b = "docker" THEN createContainer_waitSteps ELSE createTask_waitSteps

KillSteps(b, op) ==
    IF b = "docker"
    THEN IF op = "Kill" THEN createContainer_killSteps ELSE createContainer_cleanupSteps
    ELSE createTask_cleanupSteps

\* the world of a Command on a new strategy
NewWorld(method) ==
    [g |-> NewCommand, m |-> method,
     rt |-> [dstate |-> "absent", boundOut |-> "nil", boundErr |-> "nil",
             delivered |-> FALSE, lease |-> FALSE, ctxDone |-> FALSE,
             tcontainer |-> FALSE, ttask |-> FALSE, proc |-> "none", chan |-> "none"],
     closes |-> [x \in Closers |-> 0],
     sinks |-> [x \in Sinks |-> <<>>],
     h |-> [createCalls |-> 0, runCalls |-> 0, waitCalls |-> 0, killCalls |-> 0,
            cleanupCalls |-> 0, removeReqs |-> 0, stopReqs |-> 0,
            taskDeleteReqs |-> 0, containerDeleteReqs |-> 0, startCalls |-> 0,
            createOK |-> 0, startOK |-> 0, waitOps |-> 0, pipes |-> 0, waited |-> {},
            stdinEnds |-> {}, outWriters |-> {}],
     calls |-> <<>>, err |-> Nil, code |-> 0, out |-> <<>>,
     pid |-> "", rerr |-> "nil", panic |-> FALSE,
     swait |-> [called |-> FALSE, code |-> 0, err |-> Nil],
     status |-> [got |-> FALSE, code |-> 0, err |-> Nil]]

\* a Command whose Start has returned nil and whose process is running; one
\* goroutine is about to call Wait, another Kill or Cleanup
InitConcurrent ==
    \E b \in Backends, op \in {"Kill", "Cleanup"} :
        LET w == Start(NewWorld(NewMethod(b, "", NilSlice)), NoFail)
        IN  /\ g = w.g
            /\ m = w.m
            /\ rt = w.rt
            /\ closes = w.closes
            /\ sinks = w.sinks
            /\ h = w.h
            /\ calls = <<>>
            /\ ret = [op |-> "Start", err |-> w.err, out |-> <<>>, pid |-> "",
                      swait |-> w.swait, status |-> w.status]
            /\ nops = 0
            /\ crashed = FALSE
            /\ input = NoInput
            /\ pc = [NoThreads EXCEPT !.wait = "call", !.kill = "call", !.op = op]

\* a goroutine took a step that left the world w; the requests of both
\* goroutines are kept in the order they were made
ApplyStep(w, r, p) ==
    /\ g' = w.g
    /\ m' = w.m
    /\ rt' = w.rt
    /\ closes' = w.closes
    /\ sinks' = w.sinks
    /\ h' = w.h
    /\ calls' = calls \o w.calls
    /\ ret' = r
    /\ nops' = nops
    /\ crashed' = w.panic
    /\ input' = input
    /\ pc' = p

\* the goroutine in Wait: the call, the requests of the strategy's wait (it
\* blocks in cw.Wait while the container runs and in the select while no arm
\* can fire), the return
WaitThread ==
    \/ /\ pc.wait = "call"
       /\ IF ~g.started
          THEN ApplyStep(Count(World, "waitOps"), ret,
                         [pc EXCEPT !.wait = "return",
                                    !.wres = [code |-> 0, err |-> Err("NotStarted")]])
          ELSE ApplyStep(Count(Count(Called(World, "wait"), "waitOps"), "waitCalls"),
                         ret, [pc EXCEPT !.wait = WaitSteps(m.backend)[1]])
    \/ /\ pc.wait = "cw.Wait"
       /\ m.cw = "nil" \/ rt.dstate # "running"
       /\ \E code \in ExitCodes :
              LET o == createContainer_waitStep(createContainer_waitSteps, pc.wait,
                                                World, pc.wres, code)
              IN  ApplyStep(o.w, ret, [pc EXCEPT !.wait = o.at, !.wres = o.res])
    \/ /\ pc.wait \in {"WaitContainer", "del", "deferred del"}
       /\ m.backend = "docker"
       /\ \E code \in ExitCodes :
              LET o == createContainer_waitStep(createContainer_waitSteps, pc.wait,
                                                World, pc.wres, code)
              IN  ApplyStep(o.w, ret, [pc EXCEPT !.wait = o.at, !.wres = o.res])
    \/ /\ pc.wait = "select"
       /\ \E arm \in SelectArms(World), code \in ExitCodes, exitErr \in BOOLEAN :
              LET o == createTask_waitStep(createTask_waitSteps, pc.wait, World,
                                           pc.wres, arm, code, exitErr)
              IN  ApplyStep(o.w, ret, [pc EXCEPT !.wait = o.at, !.wres = o.res])
    \/ /\ pc.wait \in {"task.Delete", "container.Delete", "deleteLease", "cancel"}
       /\ LET o == createTask_waitStep(createTask_waitSteps, pc.wait, World,
                                       pc.wres, "none", 0, FALSE)
          IN  ApplyStep(o.w, ret, [pc EXCEPT !.wait = o.at, !.wres = o.res])
    \/ /\ pc.wait = "return"
       /\ ApplyStep(closeFds([World EXCEPT !.h.waited =
                                  @ \cup {g.closeAfterWait[i] :
                                             i \in 1..Len(g.closeAfterWait)}],
                             g.closeAfterWait),
                    [ret EXCEPT !.op = "Wait",
                                !.err = WaitResult(pc.wres.code, pc.wres.err),
                                !.swait = [called |-> TRUE, code |-> pc.wres.code,
                                           err |-> pc.wres.err]],
                    [pc EXCEPT !.wait = "done"])

\* the goroutine in Kill or Cleanup
KillThread ==
    \/ /\ pc.kill = "call"
       /\ IF pc.op = "Kill" /\ ~g.started
          THEN ApplyStep(World, ret, [pc EXCEPT !.kill = "return"])
          ELSE ApplyStep(IF pc.op = "Kill"
                         THEN Count(Called(World, "kill"), "killCalls")
                         ELSE Count(Called(World, "cleanup"), "cleanupCalls"), ret,
                         [pc EXCEPT !.kill = KillSteps(m.backend, pc.op)[1]])
    \/ /\ pc.kill \notin {"call", "return", "done", "none"}
       /\ LET steps == KillSteps(m.backend, pc.op)
              o == IF m.backend = "containerd"
                   THEN createTask_cleanupStep(steps, pc.kill, World, pc.kres)
                   ELSE IF pc.op = "Kill"
                   THEN createContainer_killStep(steps, pc.kill, World, pc.kres)
                   ELSE createContainer_cleanupStep(steps, pc.kill, World, pc.kres)
          IN  ApplyStep(o.w, ret, [pc EXCEPT !.kill = o.at, !.kres = o.res])
    \/ /\ pc.kill = "return"
       /\ ApplyStep(World, [ret EXCEPT !.op = pc.op, !.err = pc.kres.err],
                    [pc EXCEPT !.kill = "done"])

\* the process ends by itself
ProcessExits ==
    /\ IF m.backend = "docker" THEN rt.dstate = "running" ELSE rt.proc = "running"
    /\ ApplyStep(IF m.backend = "docker" THEN [World EXCEPT !.rt.dstate = "exited"]
                 ELSE [World EXCEPT !.rt.proc = "exited"], ret, pc)

NextConcurrent == WaitThread \/ KillThread \/ ProcessExits

SpecConcurrent == InitConcurrent /\ [][NextConcurrent]_vars

\* the scheduler lets a goroutine that can take a step take it
SpecConcurrentFair == SpecConcurrent /\ WF_vars(WaitThread) /\ WF_vars(KillThread)

(* ------------------------------ properties ----------------------------- *)

\* C1: a Start on a Command an earlier Start has already marked started (the
\* earlier Start returned nil or failed in create or run) returns the
\* AlreadyStarted error and calls neither create nor run, whatever Dir and
\* Env are.
C1_SecondStartAlreadyStarted ==
    [][(ret'.op = "Start" /\ g.started)
          => /\ ret'.err = Err("AlreadyStarted")
             /\ h'.createCalls = h.createCalls
             /\ h'.runCalls = h.runCalls]_vars

\* C2: Wait returns the NotStarted error and does not call the strategy's
\* wait as long as no Start on the Command has returned nil.
C2_WaitNeedsSuccessfulStart ==
    (ret.op = "Wait" /\ h.startOK = 0)
        => (ret.err = Err("NotStarted") /\ h.waitCalls = 0)

\* C3: when Wait has called the strategy's wait and got (code, err), it
\* returns err itself if err is non-nil, nil if err is nil and code is 0, and
\* an ExitError carrying code otherwise; it returns no ExitError when err is
\* non-nil.
C3_WaitMapsResult ==
    (ret.op \in {"Wait", "Run"} /\ ret.swait.called)
        => /\ ret.swait.err # Nil => ret.err = ret.swait.err
           /\ ret.swait.err # Nil => ret.err.kind # "ExitError"
           /\ (ret.swait.err = Nil /\ ret.swait.code = 0) => ret.err = Nil
           /\ (ret.swait.err = Nil /\ ret.swait.code # 0)
                  => /\ ret.err.kind = "ExitError"
                     /\ ret.err.code = ret.swait.code

C3_Witness ==
    /\ ret.op = "Wait"
    /\ ret.swait.called
    /\ ret.swait.err = Nil
    /\ ret.swait.code # 0
    /\ ret.err = ExitError(ret.swait.code)

\* C4: every pipe writer StdoutPipe or StderrPipe registered has Close
\* invoked on it at most once, and exactly once when a Wait has run with the
\* writer registered.
C4_ClosedExactlyOnce ==
    \A pw \in h.outWriters :
        /\ closes[pw] <= 1
        /\ pw \in h.waited => closes[pw] = 1

\* C5: closeAfterWait holds only the pipe writers StdoutPipe and StderrPipe
\* made, each registered by the call that made it, and Close is never invoked
\* on a stream the caller supplied nor on either end of StdinPipe's pair.
C5_OnlyOwnWritersClosed ==
    /\ \A i \in 1..Len(g.closeAfterWait) :
           /\ g.closeAfterWait[i] \in PipeWriterEnds
           /\ g.closeAfterWait[i] \in h.outWriters
    /\ \A x \in CallerStreams \cup {"stdinR", "stdinW"} : closes[x] = 0
    /\ \A x \in Closers : closes[x] > 0 => x \in h.outWriters

C5_Witness ==
    /\ closes["stdoutW"] >= 1
    /\ g.Stderr = "callerErr"
    /\ sinks["callerErr"] = ProcessStderr
    /\ "stdinW" \in h.stdinEnds
    /\ ret.op = "Wait"

C7_WaitBeforeStart ==
    m.backend = "containerd"
        => /\ \A i \in 1..Len(calls) :
                  calls[i] = "process.Start"
                      => /\ \E j \in 1..(i - 1) : calls[j] = "process.Wait"
                         /\ m.exitChan # "nil"
           /\ ret.err = Err("WaitProcessFailed")
                  => /\ \E j \in 1..Len(calls) : calls[j] = "process.Wait"
                     /\ \A i \in 1..Len(calls) : calls[i] # "process.Start"

C7_Witness ==
    /\ m.backend = "containerd"
    /\ ret.op = "Start"
    /\ ret.err = Nil
    /\ \E i \in 1..Len(calls) : calls[i] = "process.Start"
    /\ rt.proc = "running"

\* C8: on one Command create is called at most once and run at most once,
\* run only after create has returned nil, and started never goes back from
\* true to false.
C8_CreateRunOnce ==
    [][/\ h'.createCalls <= 1
       /\ h'.runCalls <= 1
       /\ h'.runCalls <= h'.createOK
       /\ \A i \in 1..Len(calls') :
              calls'[i] = "run" => \E j \in 1..(i - 1) : calls'[j] = "create"
       /\ g.started => g'.started]_vars

C8_Witness ==
    /\ ret.op = "Start"
    /\ h.startCalls >= 2
    /\ h.createCalls = 1
    /\ h.runCalls = 1
    /\ g.started

\* C9: Output and StdoutPipe called with Stdout set, CombinedOutput called
\* with Stdout set or else with Stderr set, StdinPipe called with Stdin set
\* and StderrPipe called with Stderr set return the matching AlreadySet
\* error, change no field of the Command and call no strategy operation.
C9_RejectedCallsChangeNothing ==
    [][LET kind == IF ret'.op \in {"Output", "StdoutPipe"} /\ g.Stdout # "nil"
                       THEN "StdoutAlreadySet"
                   ELSE IF ret'.op = "CombinedOutput" /\ g.Stdout # "nil"
                       THEN "StdoutAlreadySet"
                   ELSE IF ret'.op = "CombinedOutput" /\ g.Stderr # "nil"
                       THEN "StderrAlreadySet"
                   ELSE IF ret'.op = "StderrPipe" /\ g.Stderr # "nil"
                       THEN "StderrAlreadySet"
                   ELSE IF ret'.op = "StdinPipe" /\ g.Stdin # "nil"
                       THEN "StdinAlreadySet"
                   ELSE "accepted"
       IN  kind # "accepted"
               => /\ ret'.err = Err(kind)
                  /\ ret'.out = <<>>
                  /\ g' = g
                  /\ m' = m
                  /\ rt' = rt
                  /\ closes' = closes
                  /\ sinks' = sinks
                  /\ h' = h
                  /\ calls' = <<>>]_vars

C9_Witness ==
    /\ ret.op = "CombinedOutput"
    /\ ret.err = Err("StderrAlreadySet")
    /\ g.Stdout = "nil"
    /\ g.Stderr = "callerErr"
    /\ ~g.started

\* C10: an accepted Output returns the bytes of its stdout buffer; the error
\* it returns carries the bytes of its stderr buffer exactly when Stderr was
\* nil at the call and the error is an ExitError; when the caller had set
\* Stderr the error's Stderr is empty, the stderr buffer stays empty and the
\* caller's sink receives what the process wrote to stderr.
C10_OutputCapturesStderr ==
    [][(ret'.op = "Output" /\ g.Stdout = "nil")
          => /\ ret'.out = sinks'["stdoutBuf"]
             /\ ret'.err.stderr =
                    IF g.Stderr = "nil" /\ ret'.err.kind = "ExitError"
                    THEN sinks'["stderrBuf"] ELSE <<>>
             /\ (g.Stderr = "nil" /\ ret'.err.kind = "ExitError")
                    => sinks'["stderrBuf"] = ProcessStderr
             /\ g.Stderr # "nil"
                    => /\ sinks'["stderrBuf"] = <<>>
                       /\ ret'.err.kind = "ExitError"
                              => sinks'[g.Stderr] = sinks[g.Stderr] \o ProcessStderr]_vars

C10_Witness ==
    /\ ret.op = "Output"
    /\ ret.err.kind = "ExitError"
    /\ ret.err.stderr = ProcessStderr
    /\ ret.out = ProcessStdout
    /\ sinks["stderrBuf"] = ProcessStderr

\* C11: GetPID returns the empty string as long as no Start on the Command
\* has returned nil, returns the strategy's identifier once a Start has
\* returned nil, and never panics.
C11_GetPIDAfterSuccessfulStart ==
    ret.op = "GetPID"
        => /\ ~crashed
           /\ h.startOK = 0 => ret.pid = ""
           /\ h.startOK >= 1
                  => ret.pid = IF m.backend = "docker" THEN ContainerID ELSE "container"

\* C12: Kill on a Command that is not started returns nil, calls no strategy
\* operation and changes nothing; Kill on a started Command is one call of
\* the strategy's kill: it returns what kill returns and does what kill does.
C12_KillDelegatesWhenStarted ==
    [][ret'.op = "Kill"
          => IF ~g.started
             THEN /\ ret'.err = Nil
                  /\ ~crashed'
                  /\ calls' = <<>>
                  /\ <<g', m', rt', closes', sinks', h'>> = <<g, m, rt, closes, sinks, h>>
             ELSE /\ h'.killCalls = h.killCalls + 1
                  /\ Cardinality({i \in 1..Len(calls') : calls'[i] = "kill"}) = 1
                  /\ calls'[1] = "kill"
                  /\ \E c \in StopInputs(m.backend) :
                         Then(Method_kill(World, c), LAMBDA w :
                             /\ ret'.err = w.err
                             /\ crashed' = w.panic
                             /\ <<g', m', rt', closes', sinks', h', calls'>>
                                    = <<w.g, w.m, w.rt, w.closes, w.sinks, w.h, w.calls>>)]_vars

C12_Witness ==
    /\ ret.op = "Kill"
    /\ g.started
    /\ h.killCalls = 1
    /\ ret.err = Err("StopContainerFailed")
    /\ rt.dstate = "running"

\* C13: with the runtime answering every request without a failure of its
\* own, a Cleanup called after the Wait of a Command whose Start returned nil
\* has returned returns nil, and a Cleanup
\* called after a Cleanup that returned nil returns nil again and changes
\* no runtime resource.
C13_CleanupIdempotent ==
    (/\ ~crashed
     /\ ret.op \in {"Wait", "Cleanup"}
     /\ ret.op = "Wait" => h.startOK >= 1
     /\ ret.op = "Cleanup" => ret.err = Nil)
        => Then(Cleanup(World, NoFail), LAMBDA w :
               /\ ~w.panic
               /\ w.err = Nil
               /\ ret.op = "Cleanup" => w.rt = rt)

\* C14: when the containerd strategy's wait returns, cleanup has been called;
\* it returns (-1, Canceled) when the context ended before an exit status was
\* delivered, which is the only outcome when no status can be delivered, and
\* the delivered status's (exit code, error) otherwise.
C14_WaitSelectsExitOrCancel ==
    [][(m.backend = "containerd" /\ ret'.op = "Wait" /\ ret'.swait.called)
          => /\ h'.cleanupCalls = h.cleanupCalls + 1
             /\ \E i \in 1..Len(calls') : calls'[i] = "cleanup"
             /\ ~ExitArmReady(World) => ~ret'.status.got
             /\ ~ret'.status.got
                    => /\ ret'.swait.code = -1
                       /\ ret'.swait.err = Err("Canceled")
             /\ ret'.status.got
                    => /\ ret'.swait.code = ret'.status.code
                       /\ ret'.swait.err = ret'.status.err]_vars

C14_Witness ==
    /\ m.backend = "containerd"
    /\ ret.op = "Wait"
    /\ h.startOK >= 1
    /\ ret.swait = [called |-> TRUE, code |-> -1, err |-> Err("Canceled")]
    /\ ret.err = Err("Canceled")
    /\ \E i \in 1..Len(calls) : calls[i] = "cleanup"

\* C15: when the strategy's wait obtained the exit code without an error and
\* the removal it performs failed, leaving the container or the task in the
\* runtime, Wait returns the removal error, not nil and not an ExitError.
C15_RemovalErrorSurfaces ==
    (/\ ret.op = "Wait"
     /\ ret.status.got
     /\ ret.status.err = Nil
     /\ IF m.backend = "docker" THEN rt.dstate # "absent"
        ELSE rt.ttask \/ rt.tcontainer)
        => ret.err.kind \in {"DeleteContainerFailed", "DeleteTaskFailed"}

\* C16 as the specification has it: a call that returns a misuse error sends
\* no stop, remove or delete request to the runtime and closes no
\* closeAfterWait writer.
C16_MisuseTriggersNoCleanup ==
    [][ret'.err.kind \in {"AlreadyStarted", "NotStarted", "StdoutAlreadySet",
                          "StderrAlreadySet", "StdinAlreadySet", "CmdAlreadySet",
                          "EntrypointAlreadySet", "EnvAlreadySet",
                          "WorkingDirAlreadySet", "NotCreated", "NotAttached"}
          => /\ h'.removeReqs = h.removeReqs
             /\ h'.stopReqs = h.stopReqs
             /\ h'.taskDeleteReqs = h.taskDeleteReqs
             /\ h'.containerDeleteReqs = h.containerDeleteReqs
             /\ closes' = closes]_vars

\* C16, amended: a call that returns a misuse error other than NotStarted and
\* NotAttached sends no stop, remove or delete request and closes no writer;
\* a Wait that returns NotStarted sends no such request but invokes Close on
\* every closeAfterWait writer; a Wait that returns NotAttached has sent one
\* forced remove request and invokes Close on every closeAfterWait writer.
C16_MisuseCleanupOnlyInWait ==
    [][ret'.err.kind \in {"AlreadyStarted", "NotStarted", "StdoutAlreadySet",
                          "StderrAlreadySet", "StdinAlreadySet", "CmdAlreadySet",
                          "EntrypointAlreadySet", "EnvAlreadySet",
                          "WorkingDirAlreadySet", "NotCreated", "NotAttached"}
          => /\ h'.stopReqs = h.stopReqs
             /\ h'.taskDeleteReqs = h.taskDeleteReqs
             /\ h'.containerDeleteReqs = h.containerDeleteReqs
             /\ IF ret'.err.kind = "NotAttached"
                THEN /\ h'.removeReqs = h.removeReqs + 1
                     /\ calls' = <<"wait", "RemoveContainer:force">>
                                   \o [i \in 1..Len(g.closeAfterWait) |->
                                          "Close:" \o g.closeAfterWait[i]]
                ELSE h'.removeReqs = h.removeReqs
             /\ IF ret'.err.kind \in {"NotStarted", "NotAttached"}
                THEN /\ ret'.op = "Wait"
                     /\ closes' = [x \in Closers |->
                                      closes[x] + Cardinality(
                                          {i \in 1..Len(g.closeAfterWait) :
                                               g.closeAfterWait[i] = x})]
                ELSE closes' = closes]_vars

C16_Witness ==
    /\ ret.op = "Wait"
    /\ ret.err = Err("NotAttached")
    /\ m.Cmd # <<>>
    /\ h.removeReqs = 1
    /\ closes["stdoutW"] = 1

\* C17 as the specification has it: when a kill of the daemon strategy issued
\* after create returns nil, the container has been stopped and removed.
C17_KillRemovesContainer ==
    (m.backend = "docker" /\ ret.op = "Kill" /\ m.id # "" /\ ret.err = Nil)
        => rt.dstate = "absent"

\* C17, amended: a kill of the daemon strategy issued after create that
\* returns nil has sent one stop request and no remove request; the container
\* is not running afterwards (a running container has exited), and it is
\* absent only if it was absent before the kill.
C17_KillStopsOnly ==
    [][(m.backend = "docker" /\ ret'.op = "Kill" /\ m.id # "" /\ ret'.err = Nil)
          => /\ h'.stopReqs = h.stopReqs + 1
             /\ h'.removeReqs = h.removeReqs
             /\ rt'.dstate # "running"
             /\ rt.dstate = "running" => rt'.dstate = "exited"
             /\ rt.dstate # "running" => rt'.dstate = rt.dstate]_vars

C17_Witness ==
    /\ m.backend = "docker"
    /\ ret.op = "Kill"
    /\ ret.err = Nil
    /\ h.startOK >= 1
    /\ h.stopReqs = 1
    /\ rt.dstate = "exited"
    /\ h.removeReqs = 0

\* C18: in a Wait that reaches the strategy, every Close of a closeAfterWait
\* writer comes after the strategy's wait and all its runtime requests have
\* returned, and when Wait returns each registered writer has been closed once
\* more per registration; a Wait on a Command that was not started closes them
\* too, without calling the strategy.
C18_WritersClosedAfterWaitReturns ==
    [][(h'.waitOps = h.waitOps + 1)
          => LET l == g'.closeAfterWait
                 n == Len(calls') - Len(l)
             IN  /\ n >= 0
                 /\ \A i \in 1..n : calls'[i] \notin {"Close:" \o x : x \in Closers}
                 /\ \A i \in 1..Len(l) : calls'[n + i] = "Close:" \o l[i]
                 /\ ret'.err # Err("NotStarted")
                        => \E j \in 1..n : calls'[j] = "wait"
                 /\ ret'.swait.called <=> (ret'.err # Err("NotStarted") /\ ~crashed')
                 /\ \A x \in Closers :
                        closes'[x] = closes[x]
                                       + Cardinality({i \in 1..Len(l) : l[i] = x})]_vars

C18_Witness ==
    /\ ret.op = "Wait"
    /\ ret.swait.called
    /\ ret.status.got
    /\ Len(g.closeAfterWait) = 2
    /\ \A i \in 1..2 : closes[g.closeAfterWait[i]] = 1
    /\ Len(calls) > 2
    /\ calls[1] = "wait"
    /\ calls[Len(calls)] = "Close:" \o g.closeAfterWait[2]

\* C19: a Start on a Command whose Env is nil or has length zero makes no
\* setEnv call and does not fail with EnvAlreadySet, and a Start on a Command
\* whose Dir is the empty string makes no setDir call.
C19_EmptyEnvInherits ==
    [][(ret'.op \in {"Start", "Run"})
          => /\ Len(g.Env.v) = 0
                    => /\ \A i \in 1..Len(calls') : calls'[i] # "setEnv"
                       /\ ret'.err # Err("EnvAlreadySet")
             /\ g.Dir = ""
                    => /\ \A i \in 1..Len(calls') : calls'[i] # "setDir"
                       /\ ret'.err # Err("WorkingDirAlreadySet")]_vars

\* C20: the factory returns a Docker command for a *docker.Client and a
\* containerd command for a *containerd.Client whose default namespace is not
\* empty, each with the Config's executable and arguments; for a
\* *containerd.Client with an empty default namespace it panics with the
\* namespace error, for any other client it panics with the unsupported-client
\* error, and a panic returns no command.
C20_FactoryDispatchesOnClientType ==
    [][(ret.op = "none" /\ ret'.op = "Command")
          => LET client == input.client
                 config == input.config
             IN  /\ client.type = "*docker.Client"
                        => /\ ~crashed' /\ ret'.err = Nil
                           /\ m'.backend = "docker"
                           /\ g'.Path = config.Executable /\ g'.Args = config.Args
                 /\ (client.type = "*containerd.Client" /\ client.defaultns # "")
                        => /\ ~crashed' /\ ret'.err = Nil
                           /\ m'.backend = "containerd"
                           /\ g'.Path = config.Executable /\ g'.Args = config.Args
                 /\ (client.type = "*containerd.Client" /\ client.defaultns = "")
                        => /\ crashed' /\ ret'.err = Err("NamespaceNotSet")
                           /\ g' = NoCommand /\ m'.backend = "none"
                 /\ client.type \notin {"*docker.Client", "*containerd.Client"}
                        => /\ crashed' /\ ret'.err = Err("UnsupportedClient")
                           /\ g' = NoCommand /\ m'.backend = "none"]_vars

C20_Witness ==
    /\ ret.op = "Command"
    /\ input.client = [type |-> "*containerd.Client", defaultns |-> ""]
    /\ crashed
    /\ ret.err = Err("NamespaceNotSet")
    /\ g = NoCommand

\* C21: for every triple of identity fields the generated name is "chains-",
\* the decimal absolute values of ChainExecutorId, ExecutorId and ResultId
\* separated and followed by one hyphen each, and six letters; no two
\* hyphens are adjacent in it.
C21_NameHasAbsoluteValues ==
    ret.op = "generateContainerName"
        => LET d == m.CommandDetails
               Magnitude(v) == IF v < 0 THEN -v ELSE v
               fixed == ChainsPrefix \o <<"-">>
                            \o FormatUint(Magnitude(d.ChainExecutorId)) \o <<"-">>
                            \o FormatUint(Magnitude(d.ExecutorId)) \o <<"-">>
                            \o FormatUint(Magnitude(d.ResultId)) \o <<"-">>
           IN  /\ Len(ret.out) = Len(fixed) + randomSuffixLength
               /\ SubSeq(ret.out, 1, Len(fixed)) = fixed
               /\ \A i \in (Len(fixed) + 1)..Len(ret.out) : ret.out[i] \in Letters
               /\ \A i \in 1..(Len(ret.out) - 1) :
                      ~(ret.out[i] = "-" /\ ret.out[i + 1] = "-")

\* C22: the mounts the strategy of a factory-made command holds are the
\* translation of the mounts the factory kept, one for one and in order: for
\* containerd each has the Type, Source, Destination and Options of its
\* original, for Docker each has the Type and Source of its original, its
\* Destination as Target, and no Options.
C22_MountTranslationPreserves ==
    HasCommand
        => LET T == IF m.backend = "docker" THEN "docker.HostMount" ELSE "specs.Mount"
               ms == filterMounts(T, input.config.Mounts)
           IN  /\ Len(m.Mounts) = Len(ms)
               /\ \A i \in 1..Len(ms) :
                      /\ m.Mounts[i].Type = ms[i].Type
                      /\ m.Mounts[i].Source = ms[i].Source
                      /\ IF m.backend = "docker"
                         THEN /\ DOMAIN m.Mounts[i] = {"Type", "Source", "Target"}
                              /\ m.Mounts[i].Target = ms[i].Destination
                         ELSE /\ DOMAIN m.Mounts[i]
                                    = {"Type", "Source", "Destination", "Options"}
                              /\ m.Mounts[i].Destination = ms[i].Destination
                              /\ m.Mounts[i].Options = ms[i].Options

C22_Witness ==
    /\ HasCommand
    /\ m.backend = "containerd"
    /\ Len(input.config.Mounts) = 2
    /\ Len(m.Mounts) = 2
    /\ m.Mounts[1] # m.Mounts[2]
    /\ m.Mounts[2].Options = <<"bind", "ro">>

\* C23: a Cleanup that follows a first Start which failed after the strategy
\* had acquired resources (containerd: the lease; Docker: the container)
\* does not panic, and when it returns nil the lease is released and no
\* container and no task is left in the runtime.
C23_CleanupAfterFailedStart ==
    [][(/\ ret.op = "Start" /\ ret.err # Nil /\ h.startCalls = 1
        /\ IF m.backend = "docker" THEN m.id # "" ELSE m.doneFunc
        /\ ret'.op = "Cleanup")
          => /\ ~crashed'
             /\ ret'.err = Nil
                    => IF m.backend = "docker" THEN rt'.dstate = "absent"
                       ELSE ~rt'.lease /\ ~rt'.tcontainer /\ ~rt'.ttask]_vars

\* C24: when Run, Output or CombinedOutput returns, with or without an error
\* of the Start in it, Close has been invoked on every writer StdoutPipe and
\* StderrPipe registered before the call.
C24_RunClosesRegisteredWriters ==
    [][(ret'.op \in {"Run", "Output", "CombinedOutput"})
          => \A i \in 1..Len(g.closeAfterWait) :
                 closes'[g.closeAfterWait[i]] >= 1]_vars

\* C25: a Start that returns WorkingDirAlreadySet or EnvAlreadySet leaves the
\* started flag as it was (false on a Command no Start was called on) and
\* leaves the working directory and the environment the strategy holds as
\* they were before the call.
C25_RejectedStartChangesNothing ==
    [][(/\ ret'.op = "Start"
        /\ ret'.err \in {Err("WorkingDirAlreadySet"), Err("EnvAlreadySet")})
          => /\ g'.started = g.started
             /\ h.startCalls = 0 => ~g'.started
             /\ m'.WorkingDir = m.WorkingDir
             /\ m'.Env = m.Env]_vars

C27_CleanupErrorHandling ==
    [][(m.backend = "containerd" /\ ret'.op \in {"cleanup", "kill"} /\ ~crashed')
          => LET Has(e) == \E i \in 1..Len(calls') : calls'[i] = e
             IN  /\ calls'[2] = "task.Delete"
                 /\ h'.taskDeleteReqs = h.taskDeleteReqs + 1
                 /\ (Has("task.Delete: NotFound") \/ Has("task.Delete: nil"))
                        => /\ Has("container.Delete")
                           /\ h'.containerDeleteReqs = h.containerDeleteReqs + 1
                 /\ Has("task.Delete: other")
                        => /\ ret'.err = Err("DeleteTaskFailed")
                           /\ ~Has("container.Delete")
                           /\ h'.containerDeleteReqs = h.containerDeleteReqs
                 /\ (Has("container.Delete: nil") \/ Has("container.Delete: NotFound"))
                        => ret'.err = Nil
                 /\ Has("container.Delete: other")
                        => ret'.err = Err("DeleteContainerFailed")]_vars

C27_Witness ==
    /\ m.backend = "containerd"
    /\ ret.op = "cleanup"
    /\ ret.err = Nil
    /\ calls = <<"cleanup", "task.Delete", "task.Delete: NotFound",
                 "container.Delete", "container.Delete: nil">>

\* C28: every cleanup of the containerd strategy that runs after create
\* stored the lease's cancellation (called by Cleanup, by Kill or by the
\* strategy's wait) ends with one call of the cancellation, the lease delete
\* and then the cancel of the context, after all its delete requests: when
\* the task delete failed, when the container delete failed, when both
\* succeeded and when cleanup panics.
C28_CleanupReleasesLease ==
    [][(/\ m.backend = "containerd"
        /\ h'.cleanupCalls = h.cleanupCalls + 1 \/ h'.killCalls = h.killCalls + 1
        /\ m'.doneFunc /\ m'.ctx # "nil")
          => LET n == Len(calls')
             IN  /\ n >= 2
                 /\ calls'[n - 1] = "deleteLease"
                 /\ calls'[n] = "cancel"
                 /\ Cardinality({i \in 1..n : calls'[i] = "deleteLease"}) = 1
                 /\ rt'.ctxDone]_vars

C28_Witness ==
    /\ m.backend = "containerd"
    /\ ret.op = "Cleanup"
    /\ ret.err = Err("DeleteTaskFailed")
    /\ h.cleanupCalls = 1
    /\ calls = <<"cleanup", "task.Delete", "task.Delete: other", "deleteLease", "cancel">>
    /\ ~rt.lease

\* C29: with one goroutine in Wait and another in Kill or Cleanup on a
\* Command whose process is running, Wait returns in the end, and once both
\* calls have returned the runtime holds no container (and no task) of the
\* Command, whatever the order of the requests of the two goroutines was.
C29_KillUnblocksWait ==
    /\ [](pc.wait = "done" /\ pc.kill = "done"
              => /\ ~crashed
                 /\ IF m.backend = "docker" THEN rt.dstate = "absent"
                    ELSE ~rt.tcontainer /\ ~rt.ttask)
    /\ <>(pc.wait = "done")

C29_Witness ==
    /\ pc.wait = "done"
    /\ pc.kill = "done"
    /\ m.backend = "containerd"
    /\ pc.op = "Kill"
    /\ ~rt.tcontainer
    /\ \E a, b, i, j, k \in 1..Len(calls) :
           /\ a < b /\ b < i /\ i < j /\ j < k
           /\ calls[a] = "task.Delete: nil"
           /\ calls[b] = "select: exit"
           /\ calls[i] = "container.Delete: nil"
           /\ calls[j] = "cancel"
           /\ calls[k] = "container.Delete: other"

\* C30: when the wait of the containerd strategy returns on the arm of the
\* cancelled context, the cleanup it deferred has removed the task and the
\* container: its delete requests were not made on a context that is
\* cancelled or past its deadline.
C30_CancelledWaitRemovesTask ==
    (/\ m.backend = "containerd"
     /\ ret.op = "Wait"
     /\ ~crashed
     /\ ret.swait.called
     /\ ret.swait.err = Err("Canceled"))
        => /\ ~rt.ttask
           /\ ~rt.tcontainer
           /\ \A i \in 1..Len(calls) :
                  calls[i] \notin {"task.Delete: other", "container.Delete: other"}

\* C31: the daemon strategy's create returns CmdAlreadySet when the options
\* hold a non-empty Cmd, otherwise EntrypointAlreadySet when they hold a
\* non-empty Entrypoint, in both cases with no create request and the
\* identifier as it was (empty when no create has succeeded on the strategy);
\* otherwise it sets the five attach and stdin flags, clears Cmd, sets
\* Entrypoint to the command, sends the create request, and stores the
\* identifier only if that request succeeded.
C31_CreateRejectsOrPrepares ==
    m.backend = "docker"
        => \A c \in StartInputs("docker") :
           Then(createContainer_create(World, <<g.Path>> \o g.Args, c), LAMBDA w :
               IF Len(m.Cmd) > 0 \/ Len(m.Entrypoint) > 0
               THEN /\ w.err = IF Len(m.Cmd) > 0 THEN Err("CmdAlreadySet")
                               ELSE Err("EntrypointAlreadySet")
                    /\ w.calls = <<>>
                    /\ w.m.id = m.id
                    /\ h.createOK = 0 => w.m.id = ""
                    /\ w.rt = rt
               ELSE /\ w.m.AttachStdin /\ w.m.AttachStdout /\ w.m.AttachStderr
                    /\ w.m.OpenStdin /\ w.m.StdinOnce
                    /\ w.m.Cmd = <<>>
                    /\ w.m.Entrypoint = <<g.Path>> \o g.Args
                    /\ w.calls = <<"CreateContainer">>
                    /\ IF c.createFail = "none"
                       THEN w.err = Nil /\ w.m.id = ContainerID
                       ELSE w.err = Err("CreateContainerFailed") /\ w.m.id = m.id)

C31_Witness ==
    /\ m.backend = "docker"
    /\ ret.op = "Start"
    /\ ret.err = Err("CreateContainerFailed")
    /\ m.id = ""
    /\ m.Entrypoint = <<g.Path>> \o g.Args
    /\ m.AttachStdin
    /\ \E i \in 1..Len(calls) : calls[i] = "CreateContainer"

\* C32: when a daemon strategy on which a Command has called create is given
\* to a second Command, the first Start of the second Command fails and
\* sends no create request, so the strategy creates at most one container.
\* The error is EntrypointAlreadySet from create unless the Start fails
\* earlier: in setDir when the second Command has a Dir and the options hold
\* a WorkingDir, in setEnv when it has an Env and the options hold one, or
\* in create's check of Cmd.
C32_SharedStrategyOneContainer ==
    [][(/\ ret'.op = "Start"
        /\ g.Path = "ls"
        /\ ~g.started
        /\ h.createCalls >= 1)
          => /\ ret'.err =
                  IF g.Dir # "" /\ m.WorkingDir # "" THEN Err("WorkingDirAlreadySet")
                  ELSE IF ~g.Env.isnil /\ Len(m.Env.v) > 0 THEN Err("EnvAlreadySet")
                  ELSE IF Len(m.Cmd) > 0 THEN Err("CmdAlreadySet")
                  ELSE Err("EntrypointAlreadySet")
             /\ \A i \in 1..Len(calls') : calls'[i] # "CreateContainer"
             /\ rt' = rt
             /\ h'.createOK = h.createOK]_vars

\* C32 as stated: the second Command's Start fails in create with
\* EntrypointAlreadySet whenever the first create left Entrypoint populated.
C32_SecondStartEntrypointAlreadySet ==
    [][(/\ ret'.op = "Start"
        /\ g.Path = "ls"
        /\ ~g.started
        /\ h.createCalls >= 1
        /\ Len(m.Entrypoint) > 0
        /\ Len(m.Cmd) = 0)
          => /\ ret'.err = Err("EntrypointAlreadySet")
             /\ \A i \in 1..Len(calls') : calls'[i] # "CreateContainer"]_vars

C32_Witness ==
    /\ g.Path = "ls"
    /\ ret.op = "Start"
    /\ ret.err = Err("EntrypointAlreadySet")
    /\ h.createCalls = 2
    /\ h.createOK = 1
    /\ m.Entrypoint = <<NewCommand.Path>> \o NewCommand.Args
    /\ rt.dstate # "absent"

\* C33: the daemon strategy's run with no stored identifier returns
\* NotCreated and sends no request; otherwise its first request is the start
\* of the container, the attach request follows only when the start
\* succeeded, and the close-waiter is stored only when the attach succeeded.
C33_RunStartsThenAttaches ==
    m.backend = "docker"
        => \A c \in StartInputs("docker") :
           Then(createContainer_run(World, g.Stdin, g.Stdout, g.Stderr, c), LAMBDA w :
               IF m.id = ""
               THEN /\ w.err = Err("NotCreated")
                    /\ w.calls = <<>>
                    /\ w.m = m
                    /\ w.rt = rt
               ELSE /\ w.calls \in {<<"StartContainer">>,
                                    <<"StartContainer", "AttachToContainerNonBlocking">>}
                    /\ Len(w.calls) = 2 <=> w.err # Err("StartContainerFailed")
                    /\ w.err = Err("StartContainerFailed") => w.rt = rt
                    /\ w.err # Err("StartContainerFailed") => w.rt.dstate = "running"
                    /\ w.err \in {Nil, Err("StartContainerFailed"), Err("AttachFailed")}
                    /\ IF w.err = Nil THEN w.m.cw = "cw" ELSE w.m.cw = m.cw)

C33_Witness ==
    /\ m.backend = "docker"
    /\ ret.op = "Start"
    /\ ret.err = Err("AttachFailed")
    /\ m.id = ContainerID
    /\ m.cw = "nil"
    /\ rt.dstate = "running"
    /\ \E i \in 1..Len(calls) :
           /\ calls[i] = "StartContainer"
           /\ i < Len(calls)
           /\ calls[i + 1] = "AttachToContainerNonBlocking"

\* C34: the daemon strategy's wait returns (-1, NotAttached) when no
\* close-waiter is stored; otherwise it asks for the exit code only after the
\* attachment's wait has returned nil, returns (-1, error) without asking
\* when the attachment's wait failed, and returns the exit code it was given
\* only if both that query and the removal after it succeeded.
C34_WaitQueriesAfterAttachment ==
    m.backend = "docker"
        => \A c \in WaitInputs("docker") :
           Then(createContainer_wait(World, c), LAMBDA w :
               LET asked == {i \in 1..Len(w.calls) : w.calls[i] = "WaitContainer"}
                   removes == {i \in 1..Len(w.calls) :
                                  w.calls[i] = "RemoveContainer:force"}
               IN  IF m.cw = "nil"
                   THEN /\ w.code = -1
                        /\ w.err = Err("NotAttached")
                        /\ asked = {}
                   ELSE /\ \A i \in asked :
                               /\ c.waitFail # "cw"
                               /\ \E j \in 1..(i - 1) : w.calls[j] = "cw.Wait"
                        /\ c.waitFail = "cw"
                               => /\ w.code = -1
                                  /\ w.err = Err("AttachError")
                                  /\ asked = {}
                        /\ w.err # Nil => w.code = -1
                        /\ w.err = Nil
                               => /\ w.code = c.code
                                  /\ c.waitFail = "none"
                                  /\ ~c.rm1
                                  /\ \E i \in asked : \E j \in removes : i < j
                                  /\ w.status = [got |-> TRUE, code |-> c.code,
                                                 err |-> Nil])

C34_Witness ==
    /\ m.backend = "docker"
    /\ ret.op = "Wait"
    /\ ret.swait.called
    /\ ret.swait.code = -1
    /\ ret.swait.err = Err("DeleteContainerFailed")
    /\ ret.status.got
    /\ \E i, j, k \in 1..Len(calls) :
           /\ i < j /\ j < k
           /\ calls[i] = "cw.Wait"
           /\ calls[j] = "WaitContainer"
           /\ calls[k] = "RemoveContainer:force"

\* C35: the daemon strategy's kill sends one stop request, with a timeout of
\* one second, and nothing else; it returns nil when the stop succeeded or
\* failed with NoSuchContainer or ContainerNotRunning, and an error that
\* wraps the stop's error otherwise.
C35_KillStopsOnceIgnoringGone ==
    m.backend = "docker"
        => \A c \in StopInputs("docker") :
           Then(createContainer_kill(World, c), LAMBDA w :
               /\ w.calls = <<"StopContainer", "timeout: 1">>
               /\ w.h.stopReqs = h.stopReqs + 1
               /\ w.h.removeReqs = h.removeReqs
               /\ w.rerr = (IF c.stop THEN "other"
                            ELSE IF m.id = "" \/ rt.dstate = "absent"
                            THEN "NoSuchContainer"
                            ELSE IF rt.dstate # "running" THEN "ContainerNotRunning"
                            ELSE "nil")
               /\ w.err = IF w.rerr = "other" THEN Err("StopContainerFailed") ELSE Nil)

C35_Witness ==
    /\ m.backend = "docker"
    /\ ret.op = "Kill"
    /\ ret.err = Nil
    /\ rt.dstate = "created"
    /\ calls = <<"kill", "StopContainer", "timeout: 1">>

\* C36: the daemon strategy's cleanup sends a stop request first. When the
\* stop succeeded or failed with ContainerNotRunning it sends an unforced
\* remove request and returns nil exactly when the remove succeeded; when the
\* stop failed with NoSuchContainer it returns nil and sends no remove; when
\* the stop failed otherwise it returns that error and sends no remove.
C36_CleanupStopsThenRemoves ==
    m.backend = "docker"
        => \A c \in StopInputs("docker") :
           Then(createContainer_cleanup(World, c), LAMBDA w :
               LET stop == IF c.stop THEN "other"
                           ELSE IF m.id = "" \/ rt.dstate = "absent"
                           THEN "NoSuchContainer"
                           ELSE IF rt.dstate # "running" THEN "ContainerNotRunning"
                           ELSE "nil"
               IN  /\ w.h.stopReqs = h.stopReqs + 1
                   /\ IF stop \in {"nil", "ContainerNotRunning"}
                      THEN /\ w.calls = <<"StopContainer", "timeout: 1",
                                          "RemoveContainer">>
                           /\ w.h.removeReqs = h.removeReqs + 1
                           /\ w.err = Nil <=> w.rerr = "nil"
                           /\ w.err = Nil <=> ~c.rm1
                           /\ w.err \in {Nil, Err("RemoveContainerFailed")}
                           /\ w.err = Nil => w.rt.dstate = "absent"
                      ELSE /\ w.calls = <<"StopContainer", "timeout: 1">>
                           /\ w.h.removeReqs = h.removeReqs
                           /\ w.rt = rt
                           /\ w.err = IF stop = "NoSuchContainer" THEN Nil
                                      ELSE Err("StopContainerFailed"))

C36_Witness ==
    /\ m.backend = "docker"
    /\ ret.op = "Cleanup"
    /\ ret.err = Nil
    /\ h.startOK >= 1
    /\ h.stopReqs = 1
    /\ rt.dstate = "absent"
    /\ calls = <<"cleanup", "StopContainer", "timeout: 1", "RemoveContainer">>

\* C37: createProcessSpec sets the process Args to the command and Cwd to
\* the configured WorkingDir; when User parses as a base-10 integer n the
\* process UID is n, for every such n, negative or beyond the range of the
\* UID's type; when User does not parse, the UID of the container's spec is
\* left as it was.
C37_ProcessUIDIsParsedUser ==
    [][(ret'.op = "createProcessSpec" /\ ret'.err = Nil)
          => /\ input'.Args = m.cmd
             /\ input'.Cwd = m.WorkingDir
             /\ input'.UID = IF ParseInt(m.User).ok THEN ParseInt(m.User).v
                             ELSE input.UID]_vars

\* C38: the strategy of a factory-made Docker command holds exactly the
\* configured mounts whose Destination does not contain "resolv.conf", in
\* their configured order; the strategy of a factory-made containerd command
\* holds every configured mount, in order.
C38_FactoryFiltersResolvConf ==
    HasCommand
        => LET cfg == input.config.Mounts
               keep == {i \in 1..Len(cfg) : ~Contains(cfg[i].Destination, ResolvConf)}
               Rank(i) == Cardinality({j \in keep : j <= i})
           IN  IF m.backend = "docker"
               THEN /\ Len(m.Mounts) = Cardinality(keep)
                    /\ \A i \in keep :
                           /\ m.Mounts[Rank(i)].Target = cfg[i].Destination
                           /\ m.Mounts[Rank(i)].Source = cfg[i].Source
                           /\ m.Mounts[Rank(i)].Type = cfg[i].Type
               ELSE /\ Len(m.Mounts) = Len(cfg)
                    /\ \A i \in 1..Len(cfg) :
                           /\ m.Mounts[i].Destination = cfg[i].Destination
                           /\ m.Mounts[i].Source = cfg[i].Source
                           /\ m.Mounts[i].Type = cfg[i].Type
                           /\ m.Mounts[i].Options = cfg[i].Options

C38_Witness ==
    /\ HasCommand
    /\ m.backend = "docker"
    /\ Len(input.config.Mounts) = 2
    /\ Contains(input.config.Mounts[1].Destination, ResolvConf)
    /\ Len(m.Mounts) = 1
    /\ m.Mounts[1].Target = input.config.Mounts[2].Destination
    /\ m.Mounts[1].Target = <<"/etc/", "resolv", "/", ".conf">>

\* C39: GetStats on a containerd client counts in DeadlineExceeded each
\* listed container whose chains/deadline label is a valid RFC3339 timestamp
\* earlier than now, and counts none of those labels in Errors; it counts in
\* Errors each label that is no valid RFC3339 timestamp (next to the failed
\* reads of labels, task and status); a valid later timestamp counts in
\* neither; and the task of a container counts in one status at most.
C39_StatsCountPastDeadlines ==
    [][(/\ ret'.op = "GetStats"
        /\ ret'.err = Nil
        /\ input.client.type = "*containerd.Client")
          => LET cs == input.containers
                 now == input'.now
                 N(P(_)) == Cardinality({i \in 1..Len(cs) : P(cs[i])})
                 Valid(c) == ~c.labelsErr /\ c.hasDeadline
                                 /\ time_Parse(RFC3339, c.deadline).ok
                 Past(c) == Valid(c) /\ now > time_Parse(RFC3339, c.deadline).t
                 Invalid(c) == ~c.labelsErr /\ c.hasDeadline
                                   /\ ~time_Parse(RFC3339, c.deadline).ok
                 Failed(c) == c.task \in {"TaskError", "StatusError"}
                 LabelsFailed(c) == c.labelsErr
             IN  /\ input'.stats.DeadlineExceeded = N(Past)
                 /\ input'.stats.Errors = N(Invalid) + N(Failed) + N(LabelsFailed)
                 /\ \A st \in TaskStatuses :
                        input'.stats[st]
                            = Cardinality({i \in 1..Len(cs) : cs[i].task = st})]_vars

====
